---- MODULE Spec2Model ----
(***************************************************************************)
(* The device protocol engine of py2saber (Saber_Controller, the asyncio   *)
(* revision in src/py2saber/py2saber.py) as a state machine.               *)
(*                                                                         *)
(* Bytes are integers 0..255 and byte strings are sequences of them; the   *)
(* comment after a literal gives its ASCII text.  A task is one coroutine  *)
(* running one engine call; a step of a task runs from one suspension      *)
(* (an awaited serial write, serial read or sleep) to the next.            *)
(***************************************************************************)
EXTENDS Integers, Sequences, FiniteSets, TLC

VARIABLES
    wire,     \* every write handed to the serial port since the log was last cleared
    rx,       \* bytes the device has sent that the host has not read yet
    dev,      \* device side: payload bytes it still expects after a WR= header
    timeout,  \* self._ser.timeout, in seconds
    faults,   \* transport exceptions raised so far
    gui,      \* self.gui
    calls,    \* engine calls started so far
    pc,       \* per task: where the coroutine is suspended ("idle": no call running)
    stack,    \* per task: the labels the enclosing coroutines resume at
    l,        \* per task: the local variables of the running coroutines
    res,      \* per task: how the last engine call ended
    late,     \* bytes the device will send only after some time
    sysports, \* the serial ports of the system, as lp.comports() lists them
    port,     \* self.port (<<>> when None)
    ser,      \* self._ser: the index of the transport it refers to in trans, 0 while the attribute is not set
    trans,    \* every aioserial.AioSerial created so far: the port it is on and whether it is open
    phase,    \* how far the controller has come: "Unopened", "Ready", "Failed", "Closed"
    inits,    \* calls of initialize so far
    stored    \* the device's flash: the names of the files on it, when the model fixes them

\* the controller and its transports
sessv == <<sysports, port, ser, trans, phase, inits>>

\* what an engine call never changes
ctl == <<gui, late, stored, sessv>>

vars == <<wire, rx, dev, timeout, faults, calls, pc, stack, l, res, ctl>>

----------------------------------------------------------------------------
(* Bounds of the model *)

MaxFiles == 2     \* longest list of paths handed to write_files_to_saber
MaxCalls == 2     \* engine calls one task starts in one behaviour
MaxFaults == 1    \* transport exceptions the environment raises in one behaviour
MaxLines == 3     \* lines of a listing text handed to the parser of list_files_on_saber
MaxTicks == 3     \* progress ticks one erase counts
MaxStored == 2    \* files on the device when auto_assign_sound_effects lists them
MaxPorts == 2     \* serial ports the system lists
MaxInits == 2     \* calls of initialize on one controller
MaxTickBytes == 142   \* ticks counted in one long erase_all_files

Tasks == {1, 2}

----------------------------------------------------------------------------
(* Program constants *)

LF == 10
ETX == 3
CHUNK_SIZE == 128
DEFAULT_TIMEOUT == 3
ERASE_TIMEOUT == 5

ReadyLine == <<79, 75, 44, 32, 87, 114, 105, 116, 101, 32, 82, 101, 97, 100, 121, 10>>  \* "OK, Write Ready\n"
WriteCompleteLine == <<79, 75, 44, 32, 87, 114, 105, 116, 101, 32, 67, 111, 109, 112, 108, 101, 116, 101, 10>>  \* "OK, Write Complete\n"
CmdWRQ == <<87, 82, 63>>                       \* "WR?"
CmdVQ == <<86, 63>>                            \* "V?"
CmdSQ == <<83, 63>>                            \* "S?"
CmdLIST == <<76, 73, 83, 84, 63>>              \* "LIST?"
CmdERASE == <<69, 82, 65, 83, 69, 61, 65, 76, 76>>  \* "ERASE=ALL"
CmdFREE == <<70, 82, 69, 69, 63>>              \* "FREE?"
CmdSAVE == <<83, 65, 86, 69>>                  \* "SAVE"
CmdRD == <<82, 68, 63, 99, 111, 110, 102, 105, 103, 46, 105, 110, 105, 10>>     \* "RD?config.ini\n"
CmdUSED == <<85, 83, 69, 68, 63>>              \* "USED?"
CmdSIZE == <<83, 73, 90, 69, 63>>              \* "SIZE?"
PrefixV == <<86, 61>>                          \* "V="
PrefixS == <<83, 61>>                          \* "S="
PrefixWR == <<87, 82, 61>>                     \* "WR="
CommaSpace == <<44, 32>>                       \* ", "
TagNXT == <<78, 88, 84, 95>>                   \* "NXT_"
BeepName == <<66, 69, 69, 80, 46, 82, 65, 87>> \* "BEEP.RAW"
EtxLf == <<ETX, LF>>                           \* "\x03\n"

----------------------------------------------------------------------------
(* Byte-string helpers: what the Python bytes/str methods used by the      *)
(* engine compute.                                                         *)

Min(a, b) == IF a < b THEN a ELSE b

Take(s, n) == SubSeq(s, 1, Min(n, Len(s)))                 \* s[:n]
Drop(s, n) == SubSeq(s, n + 1, Len(s))                     \* s[n:]

StartsWith(s, p) == Len(s) >= Len(p) /\ SubSeq(s, 1, Len(p)) = p
EndsWith(s, p) == Len(s) >= Len(p) /\ SubSeq(s, Len(s) - Len(p) + 1, Len(s)) = p
Contains(s, p) == \E i \in 0..(Len(s) - Len(p)) : SubSeq(s, i + 1, i + Len(p)) = p

\* str.isspace() over ASCII
WS == {9, 10, 11, 12, 13, 28, 29, 30, 31, 32}

RECURSIVE LStrip(_)
LStrip(s) == IF s # <<>> /\ Head(s) \in WS THEN LStrip(Tail(s)) ELSE s

RECURSIVE RStrip(_)
RStrip(s) == IF s # <<>> /\ s[Len(s)] \in WS THEN RStrip(SubSeq(s, 1, Len(s) - 1)) ELSE s

Strip(s) == RStrip(LStrip(s))                               \* str.strip()

Decodable(s) == \A i \in 1..Len(s) : s[i] < 128             \* bytes.decode() does not raise

Digits == 48..57

IsDecimal(s) == s # <<>> /\ \A i \in 1..Len(s) : s[i] \in Digits

RECURSIVE DecValue(_)
DecValue(s) == IF s = <<>> THEN 0 ELSE 10 * DecValue(SubSeq(s, 1, Len(s) - 1)) + (s[Len(s)] - 48)

\* int(s) for the texts the device can produce here: surrounding white
\* space is dropped, then only decimal digits are accepted.
IntOk(s) == IsDecimal(Strip(s))
IntValue(s) == DecValue(Strip(s))

RECURSIVE DecStr(_)
DecStr(n) == IF n < 10 THEN <<48 + n>> ELSE DecStr(n \div 10) \o <<48 + (n % 10)>>   \* str(n), n >= 0

\* Lexicographic order of Python str (by code point)
RECURSIVE StrLess(_, _)
StrLess(a, b) ==
    IF b = <<>> THEN FALSE
    ELSE IF a = <<>> THEN TRUE
    ELSE IF Head(a) # Head(b) THEN Head(a) < Head(b)
    ELSE StrLess(Tail(a), Tail(b))

\* list.sort(): insertion into an ordered list, equal elements are
\* indistinguishable byte strings
RECURSIVE InsertSorted(_, _)
InsertSorted(x, s) ==
    IF s = <<>> THEN <<x>>
    ELSE IF StrLess(x, Head(s)) THEN <<x>> \o s
    ELSE <<Head(s)>> \o InsertSorted(x, Tail(s))

RECURSIVE SortList(_)
SortList(s) == IF s = <<>> THEN <<>> ELSE InsertSorted(Head(s), SortList(Tail(s)))

\* list.remove(x): drops the first element equal to x
RECURSIVE RemoveFirst(_, _)
RemoveFirst(s, x) ==
    IF s = <<>> THEN <<>>
    ELSE IF Head(s) = x THEN Tail(s)
    ELSE <<Head(s)>> \o RemoveFirst(Tail(s), x)

\* os.path.basename on a POSIX path
RECURSIVE Basename(_)
Basename(p) ==
    IF \E i \in 1..Len(p) : p[i] = 47
    THEN Basename(Tail(p))
    ELSE p

WordChars == (48..57) \cup (65..90) \cup (97..122) \cup {95}     \* regex \w over ASCII

\* index just past the run of bytes of S that starts at index i of s
RECURSIVE RunEnd(_, _, _)
RunEnd(s, i, S) == IF i <= Len(s) /\ s[i] \in S THEN RunEnd(s, i + 1, S) ELSE i

\* (mutation of Join: the parts are joined last to first)
RECURSIVE JoinReversed(_, _)
JoinReversed(parts, sep) ==
    IF parts = <<>> THEN <<>>
    ELSE IF Len(parts) = 1 THEN parts[1]
    ELSE JoinReversed(Tail(parts), sep) \o <<sep>> \o parts[1]

\* sep.join(parts) for a separator of one byte
RECURSIVE Join(_, _)
Join(parts, sep) ==
    IF parts = <<>> THEN <<>>
    ELSE IF Len(parts) = 1 THEN parts[1]
    ELSE parts[1] \o <<sep>> \o Join(Tail(parts), sep)

\* s.split(sep) for a separator of one byte
RECURSIVE Split(_, _)
Split(s, sep) ==
    IF \E i \in 1..Len(s) : s[i] = sep
    THEN LET k == CHOOSE i \in 1..Len(s) : s[i] = sep /\ \A j \in 1..(i - 1) : s[j] # sep
         IN  <<SubSeq(s, 1, k - 1)>> \o Split(SubSeq(s, k + 1, Len(s)), sep)
    ELSE <<s>>

----------------------------------------------------------------------------
(* The serial ports of the system and what they report                     *)

\* names of serial ports
COM1 == <<67, 79, 77, 49>>                         \* "COM1"
COM10 == <<67, 79, 77, 49, 48>>                    \* "COM10"

\* USB vendor and product numbers: the two pairs named in get_anima_ports
\* and port_is_anima, and one of another device
VID_EVO == 5824                                    \* 0x16C0
PID_EVO == 1155                                    \* 0x0483
VID_NXT == 1155                                    \* 0x0483
PID_NXT == 22336                                   \* 0x5740
OtherUsb == [vid |-> 9025, pid |-> 67]              \* 2341:0043
NoId == 0 - 1                                      \* vid and pid of a port that is not a USB device (None)

----------------------------------------------------------------------------
(* The host file system: the content of each local file.  os.path.getsize  *)
(* is the length of the content that open(file, "rb") then reads.          *)

PathA == <<65, 46, 82, 65, 87>>                    \* "A.RAW"
PathBeep == <<66, 69, 69, 80, 46, 82, 65, 87>>     \* "BEEP.RAW"
PathHum == <<72, 85, 77, 46, 82, 65, 87>>          \* "HUM.RAW"
basedir == <<47, 98>>                              \* "/b"
\* os.path.join(basedir, "OpenCore_OEM", "BEEP.RAW")
DefaultBeepPath == basedir \o <<47, 79, 112, 101, 110, 67, 111, 114, 101, 95, 79, 69, 77, 47>> \o BeepName

Paths == {PathA, PathBeep, PathHum}

FileContent(p) ==
    IF p = PathA THEN <<>>
    ELSE IF p = PathHum THEN <<7, 10>>
    ELSE IF p = PathBeep THEN <<66>>
    ELSE <<79>>

FileSize(p) == Len(FileContent(p))                 \* os.path.getsize(file)

\* every list of at most n paths
RECURSIVE ListsUpTo(_)
ListsUpTo(n) ==
    IF n = 0 THEN {<<>>}
    ELSE LET S == ListsUpTo(n - 1) IN S \cup {Append(s, p) : s \in {x \in S : Len(x) = n - 1}, p \in Paths}

----------------------------------------------------------------------------
(* The device, seen from the serial port: what it may answer to a command  *)
(* (nothing at all, <<>>, when it stays silent until the read times out).  *)

ReadyReplies ==
    { ReadyLine,
      <<>>,
      <<79, 75, 44, 32, 87, 114, 105, 116, 101, 32, 82, 101, 97, 100, 121>>,   \* "OK, Write Ready", cut before its LF
      <<78, 79, 10>> }                                                         \* "NO\n"

VersionReplies ==
    { <<86, 61, 78, 88, 84, 95, 50, 10>>,      \* "V=NXT_2\n"
      <<86, 61, 50, 46, 49, 10>>,              \* "V=2.1\n"
      <<86, 61, 255, 10>>,                     \* "V=\xff\n", not UTF-8
      <<>>,
      <<88, 10>> }                             \* "X\n"

SerialReplies ==
    { <<83, 61, 55, 10>>,                      \* "S=7\n"
      <<69, 10>>,                              \* "E\n"
      <<>> }

FreeReplies ==
    { <<70, 82, 69, 69, 61, 48, 10>>,          \* "FREE=0\n"
      <<70, 82, 69, 69, 61, 49, 10>>,          \* "FREE=1\n"
      <<70, 82, 69, 69, 61, 50, 10>>,          \* "FREE=2\n"
      <<70, 82, 69, 69, 61, 10>>,              \* "FREE=\n"
      <<>> }

UsedReplies ==
    { <<85, 83, 69, 68, 61, 49, 50, 10>>,      \* "USED=12\n"
      <<85, 83, 69, 68, 61, 49, 50>>,          \* "USED=12", cut before its LF
      <<78, 79, 10>>,                          \* "NO\n"
      <<>> }

TotalReplies ==
    { <<83, 73, 90, 69, 61, 51, 52, 10>>,      \* "SIZE=34\n"
      <<83, 73, 90, 69, 61, 51, 32, 75, 10>>,  \* "SIZE=3 K\n"
      <<>> }

ListReplies ==
    { <<65, 46, 82, 65, 87, 32, 53, 10, 3, 10>>,                   \* "A.RAW 5\n\x03\n"
      <<66, 69, 69, 80, 46, 82, 65, 87, 32, 49, 10, 3, 10>>,       \* "BEEP.RAW 1\n\x03\n"
      <<65, 46, 82, 65, 87, 32, 53, 10, 66, 3, 10, 88, 10>>,       \* "A.RAW 5\nB\x03\nX\n", a line after the terminator
      <<65, 46, 82, 65, 87, 32, 53, 10>> }                         \* "A.RAW 5\n", the terminator never comes

EraseReplies ==
    { <<69, 10, 35, 35, 79, 75, 10, 79, 75, 10, 10>>,              \* "E\n##OK\nOK\n\n"
      <<69, 10, 79, 75, 10, 79, 75, 10, 10>>,                      \* "E\nOK\nOK\n\n"
      <<69, 10, 35>> }                                             \* "E\n#", then silence

HeaderReplies ==
    { <<79, 75, 44, 32, 87, 114, 105, 116, 101, 10>>,              \* "OK, Write\n"
      <<69, 82, 82, 10>>,                                          \* "ERR\n"
      <<>> }

\* to P=, C<bank>=, F<bank>=, W<bank>= and B=
SetReplies ==
    { <<79, 75, 10>>,                                              \* "OK\n"
      <<79, 75, 65, 89, 10>>,                                      \* "OKAY\n"
      <<78, 79, 10>>,                                              \* "NO\n"
      <<>> }

\* to s<EFFECT>=<files>: the command echoed after "OK ", or less
SoundSetReplies(c) ==
    { <<79, 75, 32>> \o c,
      <<79, 75, 10>>,                                              \* "OK\n"
      <<>> }

\* the writes of s<EFFECT>=<files> that reached the device, by their place in the log
SoundSets(header) == {i \in 1..Len(wire) : wire[i].k = "cmd" /\ StartsWith(wire[i].b, header \o <<61>>)}

\* to s<EFFECT>?: a device that was given a list for the effect answers with
\* the header, "=" and the list it was given last; asked before, it answers
\* with some list after the header and "=", or less
SoundGetReplies(c) ==
    LET header == SubSeq(c, 1, Len(c) - 2)
        given == SoundSets(header)
    IN  IF given # {} THEN {wire[CHOOSE i \in given : \A j \in given : j <= i].b}
        ELSE
        { header \o <<61, 65, 46, 82, 65, 87, 44, 72, 85, 77, 46, 82, 65, 87, 10>>,   \* "=A.RAW,HUM.RAW\n"
          <<79, 75, 32>> \o header \o <<61, 65, 46, 82, 65, 87, 10>>,                \* "OK " header "=A.RAW\n"
          header,                                                                     \* cut before the "="
          <<>> }

SaveReplies ==
    { <<79, 75, 32, 83, 65, 86, 69, 10>>,                          \* "OK SAVE\n"
      <<79, 75, 10>>,                                              \* "OK\n"
      <<>> }

ConfigReplies ==
    { <<50, 123, 97, 125, 51>>,                                    \* "2{a}3"
      <<50, 123, 125, 51, 125, 51>>,                               \* "2{}3}3", the body {}3} holds a }3
      <<50, 123, 97, 125, 51, 10>>,                                \* "2{a}3\n"
      <<50, 123, 97>> }                                            \* "2{a", then silence

TermReplies ==
    { WriteCompleteLine,
      <<79, 75, 10>>,                                              \* "OK\n"
      <<255, 10>>,                                                 \* "\xff\n", not UTF-8
      <<>> }

\* the byte count a WR= header declares: the decimal digits that end it
HeaderSize(c) ==
    LET body == RStrip(c)
        k == CHOOSE j \in 0..Len(body) :
                 /\ \A i \in (j + 1)..Len(body) : body[i] \in Digits
                 /\ (j = 0 \/ body[j] \notin Digits)
    IN  DecValue(Drop(body, k))

\* names of files of sounds
SoundNames ==
    { <<80, 79, 87, 69, 82, 79, 78, 46, 82, 65, 87>>,                            \* "POWERON.RAW"
      <<72, 85, 77, 46, 82, 65, 87>>,                                            \* "HUM.RAW"
      <<83, 87, 73, 78, 71, 46, 82, 65, 87>>,                                    \* "SWING.RAW"
      <<83, 87, 73, 78, 71, 50, 46, 82, 65, 87>>,                                \* "SWING2.RAW"
      <<83, 77, 79, 79, 84, 72, 83, 87, 73, 78, 71, 72, 46, 82, 65, 87>>,        \* "SMOOTHSWINGH.RAW"
      <<83, 77, 79, 79, 84, 72, 83, 87, 73, 78, 71, 76, 46, 82, 65, 87>>,        \* "SMOOTHSWINGL.RAW"
      <<77, 89, 83, 77, 79, 79, 84, 72, 83, 87, 73, 78, 71, 46, 82, 65, 87>>,    \* "MYSMOOTHSWING.RAW"
      <<67, 76, 65, 83, 72, 83, 87, 73, 78, 71, 46, 82, 65, 87>> }               \* "CLASHSWING.RAW"

\* the text the device answers LIST? with: a line "<name> 1" for each file, then ETX LF
RECURSIVE ListingOf(_)
ListingOf(names) ==
    IF names = <<>> THEN EtxLf
    ELSE Head(names) \o <<32, 49, LF>> \o ListingOf(Tail(names))

CmdReplies(c) ==
    IF c = CmdWRQ \o <<LF>> THEN ReadyReplies
    ELSE IF c = CmdVQ \o <<LF>> THEN VersionReplies
    ELSE IF c = CmdSQ \o <<LF>> THEN SerialReplies
    ELSE IF c = CmdFREE \o <<LF>> THEN FreeReplies
    ELSE IF c = CmdUSED \o <<LF>> THEN UsedReplies
    ELSE IF c = CmdSIZE \o <<LF>> THEN TotalReplies
    ELSE IF c = CmdLIST \o <<LF>> THEN (IF stored.known THEN {ListingOf(stored.names)} ELSE ListReplies)
    ELSE IF c = CmdERASE \o <<LF>> THEN EraseReplies
    ELSE IF c = CmdRD THEN ConfigReplies
    ELSE IF c = CmdSAVE \o <<LF>> THEN SaveReplies
    ELSE IF Len(c) >= 2 /\ c[1] = 115 /\ c[Len(c) - 1] = 63 THEN SoundGetReplies(c)
    ELSE IF Len(c) >= 2 /\ c[1] = 115 THEN SoundSetReplies(c)
    ELSE IF Len(c) >= 2 /\ c[1] \in {80, 67, 70, 87, 66} THEN SetReplies
    ELSE {<<>>}

\* the device's reaction to a command line c while it expects `need` more
\* payload bytes: what it sends back and how many payload bytes it expects next
Reaction(c, need) ==
    IF need > 0
    THEN LET n == IF Len(c) >= need THEN 0 ELSE need - Len(c)
         IN  {[reply |-> r, need |-> n] : r \in IF n = 0 THEN TermReplies ELSE {<<>>}}
    ELSE IF StartsWith(c, PrefixWR)
    THEN LET n == HeaderSize(c)
         IN  {[reply |-> h \o t, need |-> n] :
                  h \in HeaderReplies, t \in IF n = 0 THEN TermReplies ELSE {<<>>}}
    ELSE {[reply |-> r, need |-> 0] : r \in CmdReplies(c)}

\* the device's reaction to one payload byte
DataReaction(need) ==
    IF need = 1 THEN {[reply |-> r, need |-> 0] : r \in TermReplies}
    ELSE {[reply |-> <<>>, need |-> IF need = 0 THEN 0 ELSE need - 1]}

----------------------------------------------------------------------------
(* The serial port (aioserial / pyserial)                                  *)

\* readline(): the bytes up to and including the first LF, or, when the
\* timeout ends the read first, whatever has arrived
LFPos(s) == IF \E i \in 1..Len(s) : s[i] = LF
            THEN CHOOSE i \in 1..Len(s) : s[i] = LF /\ \A j \in 1..(i - 1) : s[j] # LF
            ELSE Len(s)
ReadlineTake(buf) == SubSeq(buf, 1, LFPos(buf))
ReadlineRest(buf) == SubSeq(buf, LFPos(buf) + 1, Len(buf))

\* read(1): one byte, or b"" when the timeout ends the read first
ReadByteTake(buf) == Take(buf, 1)
ReadByteRest(buf) == Drop(buf, 1)

----------------------------------------------------------------------------
(* Pure parts of the engine                                                *)

\* send_command: the LF terminator is added when it is missing
Terminated(cmd) == IF EndsWith(cmd, <<LF>>) THEN cmd ELSE cmd \o <<LF>>

\* (mutation of ChunkAt: all that is left is written at once)
ChunkRest(cmd, pos) == SubSeq(cmd, pos + 1, Len(cmd))

\* send_command: the bytes of the write that starts at offset pos
ChunkAt(cmd, pos) == SubSeq(cmd, pos + 1, Min(pos + CHUNK_SIZE, Len(cmd)))

\* (mutation of IsReadyLine: only the start of the line is compared)
IsReadyLinePrefix(line) == StartsWith(line, SubSeq(ReadyLine, 1, Len(ReadyLine) - 1))

\* saber_is_ready: the test of the response line
IsReadyLine(line) == line = ReadyLine

\* (mutations of EraseGuard and UploadGuard: the result of the check is ignored)
EraseGuardOff(ready) == TRUE
UploadGuardOff(ready) == TRUE

\* get_saber_info, list_files_on_saber_as_bytes, erase_all_files and
\* write_files_to_saber: `if await self.saber_is_ready():`
InfoGuard(ready) == ready
ListGuard(ready) == ready
EraseGuard(ready) == ready
UploadGuard(ready) == ready

\* get_saber_info: the test of a response line against its prefix
InfoLineOk(line, prefix) == line # <<>> /\ StartsWith(line, prefix)

\* get_saber_info: response.decode().strip()[2:]
InfoValue(line) == Drop(Strip(line), 2)

\* anima_is_NXT: info["version"][:4] == "NXT_"
VersionIsNXT(version) == Take(version, 4) = TagNXT

\* (mutation of SpaceOk: whatever follows offset 5 is taken for a number)
SpaceOkAny(line) == Decodable(line)

\* get_free_space: int(response.decode().strip()[5:])
SpaceOk(line) == Decodable(line) /\ IntOk(Drop(Strip(line), 5))
SpaceValue(line) == IntValue(Drop(Strip(line), 5))

\* (mutation of IsLastListLine: the loop ends on the first whole line)
IsLastListLineAny(line) == EndsWith(line, <<LF>>)

\* rgbw_to_byte_str: the four numbers in decimal, joined by commas
rgbw_to_byte_str(r, g, b, w) == DecStr(r) \o <<44>> \o DecStr(g) \o <<44>> \o DecStr(b) \o <<44>> \o DecStr(w)

\* preview_color: the command
PreviewCmd(c) == <<80, 61>> \o rgbw_to_byte_str(c[1], c[2], c[3], c[4]) \o <<LF>>

\* (mutation of ColorLetter: a name that is none of the three is taken as "color")
ColorLetterDefault(effect) ==
    IF effect = "clash" THEN <<70>> ELSE IF effect = "swing" THEN <<87>> ELSE <<67>>

\* (mutation of ColorLetter: the letters of clash and swing change places)
ColorLetterSwapped(effect) ==
    IF effect = "color" THEN <<67>> ELSE IF effect = "clash" THEN <<87>>
    ELSE IF effect = "swing" THEN <<70>> ELSE <<>>

\* set_color: `match effect`, <<>> for the case that logs an error and returns
ColorLetter(effect) ==
    IF effect = "color" THEN <<67>>                                \* b"C"
    ELSE IF effect = "clash" THEN <<70>>                           \* b"F"
    ELSE IF effect = "swing" THEN <<87>>                           \* b"W"
    ELSE <<>>

\* set_color: the command
ColorCmd(bank, effect, c) ==
    ColorLetter(effect) \o DecStr(bank) \o <<61>> \o rgbw_to_byte_str(c[1], c[2], c[3], c[4]) \o <<LF>>

\* set_active_bank: the command
BankCmd(bank) == <<66, 61>> \o DecStr(bank) \o <<LF>>

\* (mutation of OkPrefix: only the line "OK\n" is accepted)
OkExact(line) == line = <<79, 75, LF>>

\* preview_color, set_color, set_active_bank: response[:2] != b"OK" raises
OkPrefix(line) == Take(line, 2) = <<79, 75>>

\* (mutation of get_cmd_for_sound_effect: an unknown name is taken as "on")
get_cmd_lenient(effect) ==
    IF effect = "off" THEN <<115, 79, 70, 70>>
    ELSE IF effect = "hum" THEN <<115, 72, 85, 77>>
    ELSE IF effect = "swing" THEN <<115, 83, 87>>
    ELSE IF effect = "clash" THEN <<115, 67, 76>>
    ELSE IF effect = "smoothSwingA" THEN <<115, 83, 77, 65>>
    ELSE IF effect = "smoothSwingB" THEN <<115, 83, 77, 66>>
    ELSE <<115, 79, 78>>

\* _get_cmd_for_sound_effect, <<>> for the case that raises
get_cmd_for_sound_effect(effect) ==
    IF effect = "on" THEN <<115, 79, 78>>                          \* b"sON"
    ELSE IF effect = "off" THEN <<115, 79, 70, 70>>                \* b"sOFF"
    ELSE IF effect = "hum" THEN <<115, 72, 85, 77>>                \* b"sHUM"
    ELSE IF effect = "swing" THEN <<115, 83, 87>>                  \* b"sSW"
    ELSE IF effect = "clash" THEN <<115, 67, 76>>                  \* b"sCL"
    ELSE IF effect = "smoothSwingA" THEN <<115, 83, 77, 65>>       \* b"sSMA"
    ELSE IF effect = "smoothSwingB" THEN <<115, 83, 77, 66>>       \* b"sSMB"
    ELSE <<>>

\* set_sounds_for_effect: the command, before send_command ends it with LF
SoundsCmd(effect, files) == get_cmd_for_sound_effect(effect) \o <<61>> \o Join(files, 44)

\* set_sounds_for_effect: response != b"OK " + cmd + b"\n" raises
SoundsSetOk(line, cmd) == line = <<79, 75, 32>> \o cmd \o <<LF>>

\* save_config: response != b"OK SAVE\n" raises
SaveOk(line) == line = <<79, 75, 32>> \o CmdSAVE \o <<LF>>

\* (mutation of ConfigValue: the markers stay)
ConfigValueWhole(config) == Strip(config)

\* read_config_ini: config.decode().strip()[1:-1]
ConfigValue(config) == SubSeq(Strip(config), 2, Len(Strip(config)) - 1)

\* read_config_ini: config.endswith(b"}3")
ConfigDone(config) == EndsWith(config, <<125, 51>>)

\* list_files_on_saber_as_bytes: the loop ends on a line ending in ETX LF
IsLastListLine(line) == EndsWith(line, EtxLf)

\* list_files_on_saber: one match of ^(\w+\.RAW)\s+(\d+)$ (re.MULTILINE) tried
\* at index i of the text; e is the index just past the match, 0 for no match
MatchAt(text, i) ==
    LET w == RunEnd(text, i, WordChars)
        s == w + 4
        d == RunEnd(text, s, WS)
        e == RunEnd(text, d, Digits)
    IN  IF /\ (i = 1 \/ text[i - 1] = LF)
           /\ w > i
           /\ w + 3 <= Len(text)
           /\ SubSeq(text, w, w + 3) = <<46, 82, 65, 87>>
           /\ d > s
           /\ e > d
           /\ (e > Len(text) \/ text[e] = LF)
        THEN [e |-> e, name |-> SubSeq(text, i, w + 3), size |-> DecValue(SubSeq(text, d, e - 1))]
        ELSE [e |-> 0, name |-> <<>>, size |-> 0]

\* regex.findall(file_list): the matches from left to right, none overlapping
RECURSIVE FindAll(_, _)
FindAll(text, i) ==
    IF i > Len(text) THEN <<>>
    ELSE LET m == MatchAt(text, i)
         IN  IF m.e = 0 THEN FindAll(text, i + 1)
             ELSE <<[name |-> m.name, size |-> m.size]>> \o FindAll(text, m.e)

\* file_dict after the loop over the matches: a later match of a name
\* replaces an earlier one
FileDict(text) ==
    LET ms == FindAll(text, 1)
    IN  {[name |-> ms[i].name, size |-> ms[i].size] : i \in {j \in 1..Len(ms) : \A k \in (j + 1)..Len(ms) : ms[k].name # ms[j].name}}

DictKeys(d) == {e.name : e \in d}

\* file_dict.keys(): the names in the order of their first match
RECURSIVE KeyList(_, _)
KeyList(ms, seen) ==
    IF ms = <<>> THEN <<>>
    ELSE IF Head(ms).name \in seen THEN KeyList(Tail(ms), seen)
    ELSE <<Head(ms).name>> \o KeyList(Tail(ms), seen \cup {Head(ms).name})

DictKeyList(text) == KeyList(FindAll(text, 1), {})

\* auto_assign_sound_effects: the dictionary `effects`, in its order
effects ==
    << [effect |-> "on", pattern |-> <<80, 79, 87, 69, 82, 79, 78>>],
       [effect |-> "off", pattern |-> <<80, 79, 87, 69, 82, 79, 70, 70>>],
       [effect |-> "hum", pattern |-> <<72, 85, 77>>],
       [effect |-> "swing", pattern |-> <<83, 87, 73, 78, 71>>],
       [effect |-> "clash", pattern |-> <<67, 76, 65, 83, 72>>],
       [effect |-> "smoothSwingA", pattern |-> <<83, 77, 79, 79, 84, 72, 83, 87, 73, 78, 71, 72>>],
       [effect |-> "smoothSwingB", pattern |-> <<83, 77, 79, 79, 84, 72, 83, 87, 73, 78, 71, 76>>] >>

\* [f for f in files if f.startswith(prefix)], or the files that do not when keep is FALSE
RECURSIVE WithPrefix(_, _, _)
WithPrefix(files, prefix, keep) ==
    IF files = <<>> THEN <<>>
    ELSE (IF StartsWith(Head(files), prefix) = keep THEN <<Head(files)>> ELSE <<>>)
         \o WithPrefix(Tail(files), prefix, keep)

\* (mutation of WithoutSwing: the plain swing files are kept)
WithSwing(files) == files

\* auto_assign_sound_effects: the plain swing files are dropped when a name holds SMOOTHSWING
WithoutSwing(files) ==
    IF \E i \in 1..Len(files) : Contains(files[i], <<83, 77, 79, 79, 84, 72, 83, 87, 73, 78, 71>>)
    THEN WithPrefix(files, <<83, 87, 73, 78, 71>>, FALSE)
    ELSE files

\* write_files_to_saber: beep_files = [file for file in files if "BEEP.RAW" in file]
IsBeep(file) == Contains(file, BeepName)

RECURSIVE BeepFiles(_)
BeepFiles(files) ==
    IF files = <<>> THEN <<>>
    ELSE (IF IsBeep(Head(files)) THEN <<Head(files)>> ELSE <<>>) \o BeepFiles(Tail(files))

\* write_files_to_saber: for file in beep_files: files.remove(file); files.append(file)
RECURSIVE MoveToEnd(_, _)
MoveToEnd(files, beeps) ==
    IF beeps = <<>> THEN files
    ELSE MoveToEnd(Append(RemoveFirst(files, Head(beeps)), Head(beeps)), Tail(beeps))

\* (mutation of SortedFiles: the list is left in the caller's order)
SortedFilesOff(files) == files

\* write_files_to_saber: files.sort()
SortedFiles(files) == SortList(files)

\* (mutation of BeepLast: the beep files stay where the sort put them)
BeepLastOff(files) == files

\* write_files_to_saber: the list to send once an NXT was detected and the
\* input holds a beep file
BeepLast(files) == MoveToEnd(files, BeepFiles(files))

\* (mutation of NeedsDefaultBeep: the listing is not consulted)
NeedsDefaultBeepAlways(file_dict) == TRUE

\* write_files_to_saber: whether the default beep is appended after listing
NeedsDefaultBeep(file_dict) == BeepName \notin DictKeys(file_dict)

\* (mutation of NxtSleepTime: the stream is paced on every host)
NxtSleepTimeAny(system) == 87

\* write_files_to_saber: SLEEP_TIME in microseconds once an NXT was detected
NxtSleepTime(system) == IF system # "Windows" THEN 87 ELSE 0

\* write_files_to_saber: the write-open command
WriteHeader(file, file_size) == PrefixWR \o Basename(file) \o CommaSpace \o DecStr(file_size) \o <<LF>>

\* (mutation of NotEnoughSpace: a file that fits exactly is refused)
NotEnoughSpaceStrict(free_space, file_size) == free_space <= file_size

\* write_files_to_saber: free_space < file_size raises NotEnoughFreeSpaceException
NotEnoughSpace(free_space, file_size) == free_space < file_size

\* write_files_to_saber: the test of the terminal response line
IsWriteComplete(line) == line = WriteCompleteLine

\* (mutation of MoreBytes: the loop stops one byte early)
MoreBytesShort(file, sent) == sent + 1 < Len(FileContent(file))

\* write_files_to_saber: `while bytes:` -- another byte of the file is left to send
MoreBytes(file, sent) == sent < Len(FileContent(file))

----------------------------------------------------------------------------
(* Control: a task's position, its stack of resume labels and its locals   *)

L0 == [ op |-> "none", timeout0 |-> 0,
        cmd |-> <<>>, pos |-> 0, after |-> "none",
        rdy_response |-> <<>>, ready |-> FALSE, version |-> <<>>, serial |-> <<>>, nxt |-> FALSE,
        response |-> <<>>, file_list |-> <<>>, file_dict |-> {}, free |-> 0,
        input |-> <<>>, files |-> <<>>, add_beep |-> FALSE, sleep |-> 0,
        idx |-> 0, file_size |-> 0, bytes_sent |-> 0, system |-> "none",
        i |-> 0, c |-> <<>>, emitted |-> <<>>,
        config |-> <<>>, value |-> <<>>,
        bank |-> 0, effect |-> "none", rgbw |-> <<0, 0, 0, 0>>,
        reads |-> 0 ]

NoRes == [k |-> "none", exc |-> "none"]

\* `await self.send_command(cmd)`, the coroutine resuming at `after`
Send(loc, cmd, after, stk) ==
    [pc |-> "send", stack |-> stk, res |-> NoRes,
     l |-> [loc EXCEPT !.cmd = Terminated(cmd), !.pos = 0, !.after = after]]

Goto(loc, label, stk) == [pc |-> label, stack |-> stk, res |-> NoRes, l |-> loc]

\* return from the running coroutine to the one awaiting it
Return(loc, stk) ==
    IF Head(stk) = "fin"
    THEN [pc |-> "idle", stack |-> <<>>, res |-> [k |-> "return", exc |-> "none"], l |-> loc]
    ELSE [pc |-> Head(stk), stack |-> Tail(stk), res |-> NoRes, l |-> loc]

\* an exception no coroutine of the engine catches ends the engine call
Raise(loc, exc) == [pc |-> "idle", stack |-> <<>>, res |-> [k |-> "raise", exc |-> exc], l |-> loc]

Apply(t, o) ==
    /\ pc' = [pc EXCEPT ![t] = o.pc]
    /\ stack' = [stack EXCEPT ![t] = o.stack]
    /\ l' = [l EXCEPT ![t] = o.l]
    /\ res' = [res EXCEPT ![t] = o.res]

\* entering a coroutine runs it up to its first suspension
EnterReady(loc, back, stk) ==
    Send([loc EXCEPT !.rdy_response = <<>>], CmdWRQ, "rdy_read", <<back>> \o stk)
EnterInfo(loc, back, stk) == EnterReady(loc, "info_chk", <<back>> \o stk)
EnterIsNXT(loc, back, stk) == EnterInfo(loc, "nxt_chk", <<back>> \o stk)
EnterListBytes(loc, back, stk) ==
    EnterReady([loc EXCEPT !.file_list = <<>>], "list_chk", <<back>> \o stk)
EnterListFiles(loc, back, stk) == EnterListBytes(loc, "list_parse", <<back>> \o stk)
EnterFree(loc, back, stk) == Send(loc, CmdFREE, "free_read", <<back>> \o stk)
EnterErase(loc, back, stk) == EnterReady(loc, "erase_chk", <<back>> \o stk)

\* write_files_to_saber: the head of `for file in files`
NextFile(loc, stk) ==
    IF loc.idx >= Len(loc.files)
    THEN Return(loc, stk)
    ELSE LET file == loc.files[loc.idx + 1]
         IN  EnterFree([loc EXCEPT !.idx = loc.idx + 1, !.file_size = FileSize(file), !.bytes_sent = 0],
                       "up_free_chk", stk)

\* the serial port raises instead of writing or reading
CanFault == faults < MaxFaults
Fault == faults' = faults + 1 /\ UNCHANGED <<wire, rx, dev, timeout>>

\* a write of bytes b by task t reaches the device, which reacts with r
Written(t, kind, b, r) ==
    /\ wire' = Append(wire, [t |-> t, k |-> kind, b |-> b])
    /\ rx' = rx \o r.reply
    /\ dev' = r.need

\* (mutation of IsTick: a read that timed out is not a tick)
IsTickByte(c) == c # <<>> /\ c[1] < 65

\* erase_all_files: c < b"\x41", a comparison of byte strings (b"" is below every other)
IsTick(c) == c = <<>> \/ c[1] < 65

\* erase_all_files: the value handed to progress_callback.emit for tick i
TickProgress(i) == (i * 100) \div 140

----------------------------------------------------------------------------
(* The initial state: a controller whose serial port is open               *)

Init0 ==
    /\ wire = <<>>
    /\ rx = <<>>
    /\ dev = 0
    /\ timeout = DEFAULT_TIMEOUT
    /\ faults = 0
    /\ gui \in BOOLEAN
    /\ calls = [t \in Tasks |-> 0]
    /\ stack = [t \in Tasks |-> <<>>]
    /\ l = [t \in Tasks |-> L0]
    /\ res = [t \in Tasks |-> NoRes]

\* create() has returned: the port is open and the device is attached to it
Created ==
    /\ sysports = <<[device |-> COM1, vid |-> VID_EVO, pid |-> PID_EVO]>>
    /\ port = COM1
    /\ ser = 1
    /\ trans = <<[port |-> COM1, open |-> TRUE]>>
    /\ phase = "Ready"
    /\ inits = 1

\* the files on the device are left open: LIST? is answered by any of ListReplies
AnyFiles == [known |-> FALSE, names |-> <<>>]

Init1 == Init0 /\ Created /\ late = <<>> /\ stored = AnyFiles

\* one caller that awaits each engine call before it starts the next
Init == Init1 /\ pc = [t \in Tasks |-> IF t = 1 THEN "idle" ELSE "off"]

\* two callers on the same controller (asyncio tasks)
InitConc == Init1 /\ pc = [t \in Tasks |-> "idle"]

----------------------------------------------------------------------------
(* Engine calls                                                            *)

CanCall(t) == pc[t] = "idle" /\ res[t] = NoRes /\ calls[t] < MaxCalls

Begin(t, op, o) ==
    /\ calls' = [calls EXCEPT ![t] = @ + 1]
    /\ Apply(t, [o EXCEPT !.l.op = op, !.l.timeout0 = timeout])
    /\ UNCHANGED <<wire, rx, dev, timeout, faults, ctl>>

\* the caller takes the outcome of the call it awaited; the log of writes
\* starts afresh once no call is running
Collect(t) ==
    /\ pc[t] = "idle"
    /\ res[t] # NoRes
    /\ calls[t] < MaxCalls
    /\ res' = [res EXCEPT ![t] = NoRes]
    /\ l' = [l EXCEPT ![t] = L0]
    /\ wire' = IF \A u \in Tasks : pc[u] \in {"idle", "off"} THEN <<>> ELSE wire
    /\ UNCHANGED <<rx, dev, timeout, faults, ctl, calls, pc, stack>>

CallIsReady(t) ==
    /\ CanCall(t)
    /\ Begin(t, "saber_is_ready", EnterReady(L0, "fin", <<>>))

CallGetInfo(t) ==
    /\ CanCall(t)
    /\ Begin(t, "get_saber_info", EnterInfo(L0, "fin", <<>>))

CallListFiles(t) ==
    /\ CanCall(t)
    /\ Begin(t, "list_files_on_saber", EnterListFiles(L0, "fin", <<>>))

CallErase(t) ==
    /\ CanCall(t)
    /\ Begin(t, "erase_all_files", EnterErase(L0, "fin", <<>>))

CallFreeSpace(t) ==
    /\ CanCall(t)
    /\ Begin(t, "get_free_space", EnterFree(L0, "fin", <<>>))

CallUsedSpace(t) ==
    /\ CanCall(t)
    /\ Begin(t, "get_used_space", Send(L0, CmdUSED, "used_read", <<"fin">>))

CallTotalSpace(t) ==
    /\ CanCall(t)
    /\ Begin(t, "get_total_space", Send(L0, CmdSIZE, "size_read", <<"fin">>))

\* one upload on a freshly opened session
CallUpload(t) ==
    /\ pc[t] = "idle" /\ calls[t] = 0
    /\ \E files \in ListsUpTo(MaxFiles), add_beep \in BOOLEAN :
        Begin(t, "write_files_to_saber", EnterIsNXT([L0 EXCEPT !.input = files, !.files = SortedFiles(files),
                                       !.add_beep = add_beep, !.sleep = 0],
                            "up_nxt", <<"fin">>))

----------------------------------------------------------------------------
(* send_command and saber_is_ready                                         *)

SendCommand(t) ==
    /\ pc[t] = "send"
    /\ LET loc == l[t]
           last == loc.pos + CHUNK_SIZE >= Len(loc.cmd)
       IN  \/ /\ ser # 0
              /\ \E r \in (IF last THEN Reaction(loc.cmd, dev) ELSE {[reply |-> <<>>, need |-> dev]}) :
                     Written(t, "cmd", ChunkAt(loc.cmd, loc.pos), r)
              /\ Apply(t, IF last THEN Goto(loc, loc.after, stack[t])
                          ELSE Goto([loc EXCEPT !.pos = @ + CHUNK_SIZE], "send", stack[t]))
              /\ UNCHANGED <<timeout, faults>>
           \/ /\ ser # 0
              /\ CanFault /\ Fault
              /\ Apply(t, IF loc.after = "rdy_read"
                          THEN Return([loc EXCEPT !.ready = FALSE], stack[t])
                          ELSE Raise(loc, "SerialException"))
           \* self._ser was never set: the attribute lookup raises
           \/ /\ ser = 0
              /\ Apply(t, IF loc.after = "rdy_read"
                          THEN Return([loc EXCEPT !.ready = FALSE], stack[t])
                          ELSE Raise(loc, "AttributeError"))
              /\ UNCHANGED <<wire, rx, dev, timeout, faults>>
    /\ UNCHANGED <<ctl, calls>>

ReadyRead(t) ==
    /\ pc[t] = "rdy_read"
    /\ \/ /\ rx' = ReadlineRest(rx)
          /\ LET line == ReadlineTake(rx)
             IN  Apply(t, Return([l[t] EXCEPT !.rdy_response = line, !.ready = IsReadyLine(line)], stack[t]))
          /\ UNCHANGED <<wire, dev, timeout, faults>>
       \/ /\ CanFault /\ Fault
          /\ Apply(t, Return([l[t] EXCEPT !.ready = FALSE], stack[t]))
    /\ UNCHANGED <<ctl, calls>>

----------------------------------------------------------------------------
(* get_saber_info and anima_is_NXT                                         *)

InfoCheck(t) ==
    /\ pc[t] = "info_chk"
    /\ Apply(t, IF InfoGuard(l[t].ready) THEN Send(l[t], CmdVQ, "info_v_read", stack[t])
                ELSE Raise(l[t], "AnimaNotReadyException"))
    /\ UNCHANGED <<wire, rx, dev, timeout, faults, ctl, calls>>

InfoVersionRead(t) ==
    /\ pc[t] = "info_v_read"
    /\ \/ /\ rx' = ReadlineRest(rx)
          /\ LET line == ReadlineTake(rx)
             IN  Apply(t, IF ~InfoLineOk(line, PrefixV) THEN Raise(l[t], "InvalidSaberResponseException")
                          ELSE IF ~Decodable(line) THEN Raise(l[t], "UnicodeDecodeError")
                          ELSE Send([l[t] EXCEPT !.version = InfoValue(line)], CmdSQ, "info_s_read", stack[t]))
          /\ UNCHANGED <<wire, dev, timeout, faults>>
       \/ /\ CanFault /\ Fault
          /\ Apply(t, Raise(l[t], "SerialException"))
    /\ UNCHANGED <<ctl, calls>>

InfoSerialRead(t) ==
    /\ pc[t] = "info_s_read"
    /\ \/ /\ rx' = ReadlineRest(rx)
          /\ LET line == ReadlineTake(rx)
             IN  Apply(t, IF ~InfoLineOk(line, PrefixS) THEN Raise(l[t], "InvalidSaberResponseException")
                          ELSE IF ~Decodable(line) THEN Raise(l[t], "UnicodeDecodeError")
                          ELSE Return([l[t] EXCEPT !.serial = InfoValue(line)], stack[t]))
          /\ UNCHANGED <<wire, dev, timeout, faults>>
       \/ /\ CanFault /\ Fault
          /\ Apply(t, Raise(l[t], "SerialException"))
    /\ UNCHANGED <<ctl, calls>>

IsNXTCheck(t) ==
    /\ pc[t] = "nxt_chk"
    /\ Apply(t, Return([l[t] EXCEPT !.nxt = VersionIsNXT(l[t].version)], stack[t]))
    /\ UNCHANGED <<wire, rx, dev, timeout, faults, ctl, calls>>

----------------------------------------------------------------------------
(* list_files_on_saber_as_bytes and list_files_on_saber                    *)

ListCheck(t) ==
    /\ pc[t] = "list_chk"
    /\ Apply(t, IF ListGuard(l[t].ready) THEN Send([l[t] EXCEPT !.response = <<>>], CmdLIST, "list_read", stack[t])
                ELSE Raise(l[t], "AnimaNotReadyException"))
    /\ UNCHANGED <<wire, rx, dev, timeout, faults, ctl, calls>>

ListRead(t) ==
    /\ pc[t] = "list_read"
    /\ \/ /\ rx' = ReadlineRest(rx)
          /\ LET line == ReadlineTake(rx)
                 loc == [l[t] EXCEPT !.response = line, !.file_list = @ \o line]
             IN  Apply(t, IF IsLastListLine(line) THEN Return(loc, stack[t])
                          ELSE Goto(loc, "list_read", stack[t]))
          /\ UNCHANGED <<wire, dev, timeout, faults>>
       \/ /\ CanFault /\ Fault
          /\ Apply(t, Raise(l[t], "SerialException"))
    /\ UNCHANGED <<ctl, calls>>

ListParse(t) ==
    /\ pc[t] = "list_parse"
    /\ Apply(t, IF ~Decodable(l[t].file_list) THEN Raise(l[t], "UnicodeDecodeError")
                ELSE Return([l[t] EXCEPT !.file_dict = FileDict(l[t].file_list)], stack[t]))
    /\ UNCHANGED <<wire, rx, dev, timeout, faults, ctl, calls>>

----------------------------------------------------------------------------
(* get_free_space                                                          *)

FreeRead(t) ==
    /\ pc[t] = "free_read"
    /\ \/ /\ rx' = ReadlineRest(rx)
          /\ LET line == ReadlineTake(rx)
             IN  Apply(t, IF ~Decodable(line) THEN Raise(l[t], "UnicodeDecodeError")
                          ELSE IF ~SpaceOk(line) THEN Raise(l[t], "ValueError")
                          ELSE Return([l[t] EXCEPT !.free = SpaceValue(line)], stack[t]))
          /\ UNCHANGED <<wire, dev, timeout, faults>>
       \/ /\ CanFault /\ Fault
          /\ Apply(t, Raise(l[t], "SerialException"))
    /\ UNCHANGED <<ctl, calls>>

\* get_used_space and get_total_space: the same exchange with USED? and SIZE?
SpaceRead(t, at) ==
    /\ pc[t] = at
    /\ \/ /\ rx' = ReadlineRest(rx)
          /\ LET line == ReadlineTake(rx)
             IN  Apply(t, IF ~Decodable(line) THEN Raise(l[t], "UnicodeDecodeError")
                          ELSE IF ~SpaceOk(line) THEN Raise(l[t], "ValueError")
                          ELSE Return([l[t] EXCEPT !.free = SpaceValue(line)], stack[t]))
          /\ UNCHANGED <<wire, dev, timeout, faults>>
       \/ /\ CanFault /\ Fault
          /\ Apply(t, Raise(l[t], "SerialException"))
    /\ UNCHANGED <<ctl, calls>>

UsedRead(t) == SpaceRead(t, "used_read")

TotalRead(t) == SpaceRead(t, "size_read")

----------------------------------------------------------------------------
(* erase_all_files                                                         *)

EraseCheck(t) ==
    /\ pc[t] = "erase_chk"
    /\ Apply(t, IF EraseGuard(l[t].ready) THEN Send(l[t], CmdERASE, "erase_read1", stack[t])
                ELSE Raise(l[t], "AnimaNotReadyException"))
    /\ UNCHANGED <<wire, rx, dev, timeout, faults, ctl, calls>>

\* the initial status line; the timeout is raised before the first byte read
EraseFirstLine(t) ==
    /\ pc[t] = "erase_read1"
    /\ \/ /\ rx' = ReadlineRest(rx)
          /\ timeout' = ERASE_TIMEOUT
          /\ Apply(t, Goto([l[t] EXCEPT !.response = ReadlineTake(rx), !.i = 0], "erase_byte", stack[t]))
          /\ UNCHANGED <<wire, dev, faults>>
       \/ /\ CanFault /\ Fault
          /\ Apply(t, Raise(l[t], "SerialException"))
    /\ UNCHANGED <<ctl, calls>>

\* c = await self._ser.read_async(1), then the test and the body of the while
\* loop; the count of ticks is followed up to cap
EraseByteUpTo(t, cap) ==
    /\ \/ /\ rx' = ReadByteRest(rx)
          /\ LET c == ReadByteTake(rx)
                 i == l[t].i + 1
             IN  /\ IsTick(c) /\ gui => l[t].i < cap
                 /\ Apply(t, IF ~IsTick(c) THEN Goto([l[t] EXCEPT !.c = c], "erase_rest", stack[t])
                             ELSE IF gui
                             THEN Goto([l[t] EXCEPT !.c = c, !.i = i, !.emitted = Append(@, TickProgress(i))],
                                       "erase_byte", stack[t])
                             ELSE Goto([l[t] EXCEPT !.c = c], "erase_byte", stack[t]))
          /\ UNCHANGED <<wire, dev, timeout, faults>>
       \/ /\ CanFault /\ Fault
          /\ Apply(t, Raise(l[t], "SerialException"))
    /\ UNCHANGED <<ctl, calls>>

EraseByte(t) ==
    /\ pc[t] = "erase_byte"
    /\ EraseByteUpTo(t, MaxTicks)

\* response = c + await self._ser.readline_async()
EraseRest(t) ==
    /\ pc[t] = "erase_rest"
    /\ \/ /\ rx' = ReadlineRest(rx)
          /\ Apply(t, Goto([l[t] EXCEPT !.response = l[t].c \o ReadlineTake(rx)], "erase_l2", stack[t]))
          /\ UNCHANGED <<wire, dev, timeout, faults>>
       \/ /\ CanFault /\ Fault
          /\ Apply(t, Raise(l[t], "SerialException"))
    /\ UNCHANGED <<ctl, calls>>

EraseSecondLine(t) ==
    /\ pc[t] = "erase_l2"
    /\ \/ /\ rx' = ReadlineRest(rx)
          /\ Apply(t, Goto([l[t] EXCEPT !.response = ReadlineTake(rx)], "erase_l3", stack[t]))
          /\ UNCHANGED <<wire, dev, timeout, faults>>
       \/ /\ CanFault /\ Fault
          /\ Apply(t, Raise(l[t], "SerialException"))
    /\ UNCHANGED <<ctl, calls>>

\* the last status line, the final emit and the restored timeout
EraseThirdLine(t) ==
    /\ pc[t] = "erase_l3"
    /\ \/ /\ rx' = ReadlineRest(rx)
          /\ timeout' = DEFAULT_TIMEOUT
          /\ Apply(t, Return([l[t] EXCEPT !.response = ReadlineTake(rx),
                                          !.emitted = IF gui THEN Append(@, 100) ELSE @], stack[t]))
          /\ UNCHANGED <<wire, dev, faults>>
       \/ /\ CanFault /\ Fault
          /\ Apply(t, Raise(l[t], "SerialException"))
    /\ UNCHANGED <<ctl, calls>>

----------------------------------------------------------------------------
(* write_files_to_saber                                                    *)

\* platform.system() on the host the engine runs on
Systems == {"Windows", "Linux"}

\* after anima_is_NXT: the beep file and the pacing
UploadAfterNXT(t) ==
    /\ pc[t] = "up_nxt"
    /\ \E system \in Systems :
        LET loc == l[t]
            paced == [loc EXCEPT !.system = system, !.sleep = NxtSleepTime(system)]
        IN  Apply(t, IF ~loc.nxt THEN NextFile(loc, stack[t])
                     ELSE IF BeepFiles(loc.files) # <<>>
                     THEN NextFile([paced EXCEPT !.files = BeepLast(loc.files)], stack[t])
                     ELSE IF loc.add_beep
                     THEN EnterListFiles(loc, "up_listed", stack[t])
                     ELSE NextFile(paced, stack[t]))
    /\ UNCHANGED <<wire, rx, dev, timeout, faults, ctl, calls>>

\* after list_files_on_saber: the default beep and the pacing
UploadAfterList(t) ==
    /\ pc[t] = "up_listed"
    /\ \E system \in Systems :
        LET loc == [l[t] EXCEPT !.system = system, !.sleep = NxtSleepTime(system)]
        IN  Apply(t, IF NeedsDefaultBeep(loc.file_dict)
                     THEN NextFile([loc EXCEPT !.files = Append(@, DefaultBeepPath)], stack[t])
                     ELSE NextFile(loc, stack[t]))
    /\ UNCHANGED <<wire, rx, dev, timeout, faults, ctl, calls>>

\* after get_free_space: the space test, open(file) and the readiness check
UploadFreeCheck(t) ==
    /\ pc[t] = "up_free_chk"
    /\ Apply(t, IF NotEnoughSpace(l[t].free, l[t].file_size)
                THEN Raise(l[t], "NotEnoughFreeSpaceException")
                ELSE EnterReady(l[t], "up_rdy_chk", stack[t]))
    /\ UNCHANGED <<wire, rx, dev, timeout, faults, ctl, calls>>

UploadReadyCheck(t) ==
    /\ pc[t] = "up_rdy_chk"
    /\ Apply(t, IF UploadGuard(l[t].ready)
                THEN Send([l[t] EXCEPT !.bytes_sent = 0],
                          WriteHeader(l[t].files[l[t].idx], l[t].file_size), "up_hdr_read", stack[t])
                ELSE Raise(l[t], "AnimaNotReadyException"))
    /\ UNCHANGED <<wire, rx, dev, timeout, faults, ctl, calls>>

\* (mutation of UploadHeaderRead: a line that does not begin with OK ends the upload)
UploadHeaderReadChecked(t) ==
    /\ pc[t] = "up_hdr_read"
    /\ \/ /\ rx' = ReadlineRest(rx)
          /\ LET line == ReadlineTake(rx)
                 loc == [l[t] EXCEPT !.response = line]
             IN  Apply(t, IF StartsWith(line, <<79, 75>>) THEN Goto(loc, "up_stream", stack[t])
                          ELSE Raise(loc, "AnimaFileWriteException"))
          /\ UNCHANGED <<wire, dev, timeout, faults>>
       \/ /\ CanFault /\ Fault
          /\ Apply(t, Raise(l[t], "SerialException"))
    /\ UNCHANGED <<ctl, calls>>

\* response = await self.read_line() after the header, then the first sleep
UploadHeaderRead(t) ==
    /\ pc[t] = "up_hdr_read"
    /\ \/ /\ rx' = ReadlineRest(rx)
          /\ Apply(t, Goto([l[t] EXCEPT !.response = ReadlineTake(rx)], "up_stream", stack[t]))
          /\ UNCHANGED <<wire, dev, timeout, faults>>
       \/ /\ CanFault /\ Fault
          /\ Apply(t, Raise(l[t], "SerialException"))
    /\ UNCHANGED <<ctl, calls>>

\* one round of `while bytes:`: a byte is written and flushed, then the task sleeps
UploadByte(t) ==
    /\ pc[t] = "up_stream"
    /\ LET loc == l[t]
           file == loc.files[loc.idx]
       IN  /\ MoreBytes(file, loc.bytes_sent)
           /\ \/ /\ \E r \in DataReaction(dev) :
                        Written(t, "data", <<FileContent(file)[loc.bytes_sent + 1]>>, r)
                 /\ Apply(t, Goto([loc EXCEPT !.bytes_sent = @ + 1], "up_stream", stack[t]))
                 /\ UNCHANGED <<timeout, faults>>
              \/ /\ CanFault /\ Fault
                 /\ Apply(t, Raise(loc, "SerialException"))
    /\ UNCHANGED <<ctl, calls>>

\* the file is exhausted: the loop and the `with` block end
UploadStreamDone(t) ==
    /\ pc[t] = "up_stream"
    /\ ~MoreBytes(l[t].files[l[t].idx], l[t].bytes_sent)
    /\ Apply(t, Goto(l[t], "up_term_read", stack[t]))
    /\ UNCHANGED <<wire, rx, dev, timeout, faults, ctl, calls>>

\* the terminal response line
UploadTerminalRead(t) ==
    /\ pc[t] = "up_term_read"
    /\ \/ /\ rx' = ReadlineRest(rx)
          /\ LET line == ReadlineTake(rx)
                 loc == [l[t] EXCEPT !.response = line]
             IN  Apply(t, IF IsWriteComplete(line) THEN Goto(loc, "up_pause", stack[t])
                          ELSE IF ~Decodable(Strip(line)) THEN Raise(loc, "UnicodeDecodeError")
                          ELSE Raise(loc, "AnimaFileWriteException"))
          /\ UNCHANGED <<wire, dev, timeout, faults>>
       \/ /\ CanFault /\ Fault
          /\ Apply(t, Raise(l[t], "SerialException"))
    /\ UNCHANGED <<ctl, calls>>

\* the pause between files is over: the next file, or the end of the call
UploadPause(t) ==
    /\ pc[t] = "up_pause"
    /\ Apply(t, NextFile(l[t], stack[t]))
    /\ UNCHANGED <<wire, rx, dev, timeout, faults, ctl, calls>>

----------------------------------------------------------------------------
(* The specifications                                                      *)

\* the calls that end after a few exchanges, in any sequence
Step(t) ==
    \/ CallIsReady(t) \/ CallGetInfo(t) \/ CallListFiles(t) \/ CallErase(t)
    \/ CallFreeSpace(t) \/ CallUsedSpace(t) \/ CallTotalSpace(t) \/ Collect(t)
    \/ SendCommand(t) \/ ReadyRead(t)
    \/ InfoCheck(t) \/ InfoVersionRead(t) \/ InfoSerialRead(t)
    \/ ListCheck(t) \/ ListRead(t) \/ ListParse(t)
    \/ FreeRead(t) \/ UsedRead(t) \/ TotalRead(t)
    \/ EraseCheck(t) \/ EraseFirstLine(t) \/ EraseByte(t) \/ EraseRest(t)
    \/ EraseSecondLine(t) \/ EraseThirdLine(t)

Next == \E t \in Tasks : Step(t)

Spec == Init /\ [][Next]_vars

\* write_files_to_saber, with every coroutine it awaits
StepUpload(t) ==
    \/ CallUpload(t)
    \/ SendCommand(t) \/ ReadyRead(t)
    \/ InfoCheck(t) \/ InfoVersionRead(t) \/ InfoSerialRead(t) \/ IsNXTCheck(t)
    \/ ListCheck(t) \/ ListRead(t) \/ ListParse(t)
    \/ FreeRead(t)
    \/ UploadAfterNXT(t) \/ UploadAfterList(t) \/ UploadFreeCheck(t) \/ UploadReadyCheck(t)
    \/ UploadHeaderRead(t) \/ UploadByte(t) \/ UploadStreamDone(t) \/ UploadTerminalRead(t)
    \/ UploadPause(t)

NextUpload == \E t \in Tasks : StepUpload(t)

SpecUpload == Init /\ [][NextUpload]_vars

\* Two asyncio tasks on one controller: task 1 uploads one file while task 2
\* checks readiness.  Nothing in the engine keeps a task from running
\* between two suspensions of the other.
CallUploadOne(t) ==
    /\ t = 1
    /\ CanCall(t)
    /\ Begin(t, "write_files_to_saber", EnterIsNXT([L0 EXCEPT !.input = <<PathHum>>, !.files = SortedFiles(<<PathHum>>)],
                           "up_nxt", <<"fin">>))

CallIsReadyOther(t) ==
    /\ t = 2
    /\ CanCall(t)
    /\ Begin(t, "saber_is_ready", EnterReady(L0, "fin", <<>>))

StepConc(t) ==
    \/ CallUploadOne(t) \/ CallIsReadyOther(t)
    \/ SendCommand(t) \/ ReadyRead(t)
    \/ InfoCheck(t) \/ InfoVersionRead(t) \/ InfoSerialRead(t) \/ IsNXTCheck(t)
    \/ FreeRead(t)
    \/ UploadAfterNXT(t) \/ UploadFreeCheck(t) \/ UploadReadyCheck(t)
    \/ UploadHeaderRead(t) \/ UploadByte(t) \/ UploadStreamDone(t) \/ UploadTerminalRead(t)
    \/ UploadPause(t)

NextConc == \E t \in Tasks : StepConc(t)

SpecConc == InitConc /\ [][NextConc]_vars

----------------------------------------------------------------------------
(* read_config_ini                                                         *)

CallReadConfig(t) ==
    /\ pc[t] = "idle" /\ calls[t] = 0
    /\ Begin(t, "read_config_ini", Send(L0, CmdRD, "cfg_read", <<"fin">>))

\* one round of `while not config.endswith(b"}3")`: a byte is read, or none
\* when the read times out, and the loop test is made again
ConfigByte(t) ==
    /\ pc[t] = "cfg_read"
    /\ \/ /\ rx' = ReadByteRest(rx)
          /\ LET loc == [l[t] EXCEPT !.config = @ \o ReadByteTake(rx)]
             IN  Apply(t, IF ~ConfigDone(loc.config) THEN Goto(loc, "cfg_read", stack[t])
                          ELSE IF ~Decodable(loc.config) THEN Raise(loc, "UnicodeDecodeError")
                          ELSE Return([loc EXCEPT !.value = ConfigValue(loc.config)], stack[t]))
          /\ UNCHANGED <<wire, dev, timeout, faults>>
       \/ /\ CanFault /\ Fault
          /\ Apply(t, Raise(l[t], "SerialException"))
    /\ UNCHANGED <<ctl, calls>>

----------------------------------------------------------------------------
(* Colors, banks and sound effects                                         *)

Banks == 0..7

Colors == {<<10, 20, 30, 40>>, <<0, 0, 0, 0>>, <<255, 255, 255, 255>>, <<0, 9, 100, 255>>}

ColorEffects == {"color", "clash", "swing", "glow"}

SoundEffects == {"on", "off", "hum", "swing", "clash", "smoothSwingA", "smoothSwingB", "boot", "ON"}

\* the exception a rejected response raises, or the step that follows
\* (mutation of Checked: the response is not looked at)
Unchecked(ok, loc, then) == then

Checked(ok, loc, then) == IF ok THEN then ELSE Raise(loc, "InvalidSaberResponseException")

\* a response line is read and handed to the code that follows the read
ReadResponse(t, after(_)) ==
    /\ \/ /\ rx' = ReadlineRest(rx)
          /\ Apply(t, after([l[t] EXCEPT !.response = ReadlineTake(rx)]))
          /\ UNCHANGED <<wire, dev, timeout, faults>>
       \/ /\ CanFault /\ Fault
          /\ Apply(t, Raise(l[t], "SerialException"))
    /\ UNCHANGED <<ctl, calls>>

CallPreviewColor(t) ==
    /\ pc[t] = "idle" /\ calls[t] = 0
    /\ \E c \in Colors :
           Begin(t, "preview_color", Send([L0 EXCEPT !.rgbw = c], PreviewCmd(c), "preview_read", <<"fin">>))

PreviewRead(t) ==
    /\ pc[t] = "preview_read"
    /\ LET after(loc) == Checked(OkPrefix(loc.response), loc, Return(loc, stack[t]))
       IN  ReadResponse(t, after)

CallSetColor(t) ==
    /\ pc[t] = "idle" /\ calls[t] = 0
    /\ \E bank \in Banks, effect \in ColorEffects, c \in Colors :
           LET loc == [L0 EXCEPT !.bank = bank, !.effect = effect, !.rgbw = c]
           IN  Begin(t, "set_color",
                     IF ColorLetter(effect) = <<>> THEN Return(loc, <<"fin">>)
                     ELSE Send(loc, ColorCmd(bank, effect, c), "color_read", <<"fin">>))

ColorRead(t) ==
    /\ pc[t] = "color_read"
    /\ LET after(loc) == Checked(OkPrefix(loc.response), loc, Send(loc, CmdSAVE, "save_read", stack[t]))
       IN  ReadResponse(t, after)

CallSetActiveBank(t) ==
    /\ pc[t] = "idle" /\ calls[t] = 0
    /\ \E bank \in Banks :
           Begin(t, "set_active_bank", Send([L0 EXCEPT !.bank = bank], BankCmd(bank), "bank_read", <<"fin">>))

BankRead(t) ==
    /\ pc[t] = "bank_read"
    /\ LET after(loc) == Checked(OkPrefix(loc.response), loc, Send(loc, CmdSAVE, "save_read", stack[t]))
       IN  ReadResponse(t, after)

CallSetSounds(t) ==
    /\ pc[t] = "idle" /\ calls[t] = 0
    /\ \E effect \in SoundEffects, files \in ListsUpTo(MaxFiles) :
           LET loc == [L0 EXCEPT !.effect = effect, !.input = files]
           IN  Begin(t, "set_sounds_for_effect",
                     IF get_cmd_for_sound_effect(effect) = <<>>
                     THEN Raise(loc, "InvalidSoundEffectSpecifiedException")
                     ELSE Send(loc, SoundsCmd(effect, files), "sounds_set_read", <<"fin">>))

SoundsSetRead(t) ==
    /\ pc[t] = "sounds_set_read"
    /\ LET after(loc) == Checked(SoundsSetOk(loc.response, SoundsCmd(loc.effect, loc.input)), loc,
                                  Send(loc, CmdSAVE, "save_read", stack[t]))
       IN  ReadResponse(t, after)

CallGetSounds(t) ==
    /\ pc[t] = "idle" /\ calls[t] = 0
    /\ \E effect \in SoundEffects :
           LET loc == [L0 EXCEPT !.effect = effect]
           IN  Begin(t, "get_sounds_for_effect",
                     IF get_cmd_for_sound_effect(effect) = <<>>
                     THEN Raise(loc, "InvalidSoundEffectSpecifiedException")
                     ELSE Send(loc, get_cmd_for_sound_effect(effect) \o <<63>>, "sounds_get_read", <<"fin">>))

\* r = response.split(b"="), the test of r[0], then r[1].decode().strip().split(",")
SoundsGetRead(t) ==
    /\ pc[t] = "sounds_get_read"
    /\ LET after(loc) ==
                LET r == Split(loc.response, 61)
                IN  IF r[1] # get_cmd_for_sound_effect(loc.effect) THEN Raise(loc, "InvalidSaberResponseException")
                    ELSE IF Len(r) < 2 THEN Raise(loc, "IndexError")
                    ELSE IF ~Decodable(r[2]) THEN Raise(loc, "UnicodeDecodeError")
                    ELSE Return([loc EXCEPT !.value = Split(Strip(r[2]), 44)], stack[t])
       IN  ReadResponse(t, after)

CallSaveConfig(t) ==
    /\ pc[t] = "idle" /\ calls[t] = 0
    /\ Begin(t, "save_config", Send(L0, CmdSAVE, "save_read", <<"fin">>))

SaveRead(t) ==
    /\ pc[t] = "save_read"
    /\ LET after(loc) == Checked(SaveOk(loc.response), loc, Return(loc, stack[t]))
       IN  ReadResponse(t, after)

\* the caller that set the sounds of an effect asks for them next
CallGetSoundsAfter(t) ==
    /\ pc[t] = "idle" /\ calls[t] = 1
    /\ l[t].op = "set_sounds_for_effect" /\ res[t].k = "return"
    /\ LET loc == [L0 EXCEPT !.effect = l[t].effect, !.input = l[t].input]
       IN  Begin(t, "get_sounds_for_effect",
                 Send(loc, get_cmd_for_sound_effect(loc.effect) \o <<63>>, "sounds_get_read", <<"fin">>))

NextSounds ==
    \E t \in Tasks :
        \/ CallSetSounds(t) \/ SoundsSetRead(t) \/ SaveRead(t)
        \/ CallGetSoundsAfter(t) \/ SoundsGetRead(t)
        \/ SendCommand(t)

SpecSounds == Init /\ [][NextSounds]_vars

\* the calls that read and change the configuration, one call on a freshly
\* opened session
NextConfig ==
    \E t \in Tasks :
        \/ CallReadConfig(t) \/ ConfigByte(t)
        \/ CallPreviewColor(t) \/ PreviewRead(t)
        \/ CallSetColor(t) \/ ColorRead(t)
        \/ CallSetActiveBank(t) \/ BankRead(t)
        \/ CallSetSounds(t) \/ SoundsSetRead(t)
        \/ CallGetSounds(t) \/ SoundsGetRead(t)
        \/ CallSaveConfig(t) \/ SaveRead(t)
        \/ SendCommand(t)

SpecConfig == Init /\ [][NextConfig]_vars

----------------------------------------------------------------------------
(* Calls that wait for the device: the event loop resumes every coroutine  *)
(* whose read or write has ended, and a read ends when the line or byte is *)
(* there or the timeout has passed.  That the serial port raises is never  *)
(* bound to happen.                                                        *)

\* the calls that read until the device has sent an end
StepLive(t) ==
    \/ CallListFiles(t) \/ CallErase(t) \/ CallReadConfig(t) \/ Collect(t)
    \/ SendCommand(t) \/ ReadyRead(t)
    \/ ListCheck(t) \/ ListRead(t) \/ ListParse(t)
    \/ EraseCheck(t) \/ EraseFirstLine(t) \/ EraseByte(t) \/ EraseRest(t)
    \/ EraseSecondLine(t) \/ EraseThirdLine(t)
    \/ ConfigByte(t)

NextLive == \E t \in Tasks : StepLive(t)

\* a step in which the serial port does not raise
Runs == NextLive /\ faults' = faults

\* without a progress sink erase_all_files counts nothing, so that an erase
\* that reads for ever is a cycle of states
InitLive == Init /\ ~gui

SpecLive == InitLive /\ [][NextLive]_vars /\ WF_vars(Runs)

----------------------------------------------------------------------------
(* The ports of the system, initialize and __del__                         *)

\* "{:04X}".format(n)
HexDigit(d) == IF d < 10 THEN 48 + d ELSE 55 + d
Hex4(n) == <<HexDigit((n \div 4096) % 16), HexDigit((n \div 256) % 16), HexDigit((n \div 16) % 16), HexDigit(n % 16)>>

\* the hardware id serial.tools.list_ports reports for a port
Hwid(p) ==
    IF p.vid = NoId THEN <<110, 47, 97>>
    ELSE <<85, 83, 66, 32, 86, 73, 68, 58, 80, 73, 68, 61>> \o Hex4(p.vid) \o <<58>> \o Hex4(p.pid)

\* re.search(r"VID:PID=(16C0|0483):(0483|5740)", text)
MatchesIds(text) ==
    \E v \in {<<49, 54, 67, 48>>, <<48, 52, 56, 51>>}, q \in {<<48, 52, 56, 51>>, <<53, 55, 52, 48>>} :
        Contains(text, <<86, 73, 68, 58, 80, 73, 68, 61>> \o v \o <<58>> \o q)

\* lp.grep(r"VID:PID=(16C0|0483):(0483|5740)"): the ports whose name or
\* hardware id the expression is found in
GrepIds(ports) == SelectSeq(ports, LAMBDA p : MatchesIds(p.device) \/ MatchesIds(Hwid(p)))

\* lp.grep(port), for a name that holds no special character of expressions
GrepName(ports, name) == SelectSeq(ports, LAMBDA p : Contains(p.device, name) \/ Contains(Hwid(p), name))

\* get_anima_ports: the names of the ports found
get_anima_ports(ports) == [i \in 1..Len(GrepIds(ports)) |-> GrepIds(ports)[i].device]

\* (mutation of port_is_anima: every port is accepted)
PortIsAny(ports, name) == TRUE

\* port_is_anima: the first port found decides; none found raises StopIteration, which gives False
port_is_anima(ports, name) ==
    LET found == GrepName(ports, name)
    IN  /\ found # <<>>
        /\ LET p == found[1]
           IN  \/ p.vid = VID_EVO /\ p.pid = PID_EVO
               \/ p.vid = VID_NXT /\ p.pid = PID_NXT

\* (mutation of FirstPort: the last port found is taken)
LastPort(ports) == ports[Len(ports)]

\* initialize: ports[0]
FirstPort(ports) == ports[1]

\* what the ports of the model report: the two known pairs, the two pairs
\* that mix them, another USB device, and a port that is none
PortIds ==
    { [vid |-> VID_EVO, pid |-> PID_EVO], [vid |-> VID_NXT, pid |-> PID_NXT],
      [vid |-> VID_NXT, pid |-> PID_EVO], [vid |-> VID_EVO, pid |-> PID_NXT],
      OtherUsb, [vid |-> NoId, pid |-> NoId] }

PortNames == {COM1, COM10}

Descriptors == {[device |-> n, vid |-> i.vid, pid |-> i.pid] : n \in PortNames, i \in PortIds}

\* every list of at most n ports, no name twice
RECURSIVE PortLists(_)
PortLists(n) ==
    IF n = 0 THEN {<<>>}
    ELSE LET S == PortLists(n - 1)
         IN  S \cup {Append(x, d) : x \in {y \in S : Len(y) = n - 1}, d \in Descriptors}

DistinctNames(ports) == \A i, j \in 1..Len(ports) : i # j => ports[i].device # ports[j].device

Exists(ports, name) == \E i \in 1..Len(ports) : ports[i].device = name

CallGetAnimaPorts(t) ==
    /\ CanCall(t)
    /\ Begin(t, "get_anima_ports", Return([L0 EXCEPT !.value = get_anima_ports(sysports)], <<"fin">>))

CallPortIsAnima(t) ==
    /\ CanCall(t)
    /\ \E name \in PortNames :
           Begin(t, "port_is_anima",
                 Return([L0 EXCEPT !.input = name, !.ready = port_is_anima(sysports, name)], <<"fin">>))

\* initialize: no step of it suspends, the coroutines it awaits have no await themselves.
\* The transport self._ser referred to before is dropped without being
\* closed; the finalizer of the object closes it, at once (closed) or later.
Initialize(t) ==
    /\ pc[t] = "idle" /\ res[t] = NoRes
    /\ phase # "Closed"
    /\ inits < MaxInits
    /\ inits' = inits + 1
    /\ LET found == get_anima_ports(sysports)
           ok == IF port # <<>> THEN port_is_anima(sysports, port) ELSE found # <<>>
           name == IF port # <<>> THEN port ELSE IF ok THEN FirstPort(found) ELSE port
           loc == [L0 EXCEPT !.op = "initialize", !.input = port]
       IN  /\ port' = name
           /\ \/ /\ ~ok
                 /\ Apply(t, Raise(loc, "NoAnimaSaberException"))
                 /\ phase' = "Failed"
                 /\ UNCHANGED <<ser, trans, timeout, faults>>
              \/ /\ ok /\ Exists(sysports, name)
                 /\ \E closed \in BOOLEAN :
                        trans' = Append(IF ser # 0 /\ closed THEN [trans EXCEPT ![ser].open = FALSE] ELSE trans,
                                        [port |-> name, open |-> TRUE])
                 /\ ser' = Len(trans) + 1
                 /\ timeout' = DEFAULT_TIMEOUT
                 /\ Apply(t, Return(loc, <<"fin">>))
                 /\ phase' = "Ready"
                 /\ UNCHANGED faults
              \* aioserial.AioSerial(self.port) cannot open the port
              \/ /\ ok
                 /\ IF Exists(sysports, name) THEN CanFault /\ faults' = faults + 1 ELSE UNCHANGED faults
                 /\ Apply(t, Raise(loc, "SerialException"))
                 /\ phase' = "Failed"
                 /\ UNCHANGED <<ser, trans, timeout>>
    /\ UNCHANGED <<wire, rx, dev, gui, late, stored, sysports, calls>>

\* __del__: self._ser.close(), any exception passed over
Destroy ==
    /\ phase # "Closed"
    /\ \A t \in Tasks : pc[t] \in {"idle", "off"}
    /\ trans' = IF ser # 0 THEN [trans EXCEPT ![ser].open = FALSE] ELSE trans
    /\ phase' = "Closed"
    /\ UNCHANGED <<wire, rx, dev, timeout, faults, gui, late, stored, sysports, port, ser, inits, calls, pc, stack, l, res>>

\* the finalizer of a transport nothing refers to any more closes it
Finalize ==
    /\ \E i \in 1..Len(trans) :
           /\ i # ser /\ trans[i].open
           /\ trans' = [trans EXCEPT ![i].open = FALSE]
    /\ UNCHANGED <<wire, rx, dev, timeout, faults, gui, late, stored, sysports, port, ser, phase, inits, calls, pc, stack, l, res>>

\* a controller just constructed, with or without a port, on a system with some ports
InitSession ==
    /\ Init0 /\ ~gui /\ late = <<>> /\ stored = AnyFiles
    /\ sysports \in {ports \in PortLists(MaxPorts) : DistinctNames(ports)}
    /\ port \in {<<>>} \cup PortNames
    /\ ser = 0 /\ trans = <<>> /\ phase = "Unopened" /\ inits = 0
    /\ pc = [t \in Tasks |-> IF t = 1 THEN "idle" ELSE "off"]

NextSession ==
    \/ \E t \in Tasks :
           \/ Initialize(t)
           \/ CallGetAnimaPorts(t) \/ CallPortIsAnima(t)
           \/ phase # "Closed" /\ CallIsReady(t)
           \/ SendCommand(t) \/ ReadyRead(t)
           \/ Collect(t)
    \/ Destroy
    \/ Finalize

SpecSession == InitSession /\ [][NextSession]_vars

----------------------------------------------------------------------------
(* auto_assign_sound_effects                                               *)

\* the files on the device: up to MaxStored of the names, none twice
RECURSIVE NameLists(_)
NameLists(n) ==
    IF n = 0 THEN {<<>>}
    ELSE LET S == NameLists(n - 1)
         IN  S \cup {Append(x, f) : x \in {y \in S : Len(y) = n - 1}, f \in SoundNames}

Distinct(x) == \A i, j \in 1..Len(x) : i # j => x[i] # x[j]

\* set_sounds_for_effect for the effect at place loc.idx + 1 of `effects`
AssignEffect(loc, stk) ==
    LET e == effects[loc.idx + 1]
        list == WithPrefix(loc.files, e.pattern, TRUE)
    IN  Send([loc EXCEPT !.idx = @ + 1, !.effect = e.effect, !.input = list],
             SoundsCmd(e.effect, list), "sounds_set_read", <<"assign_next">> \o stk)

CallAutoAssign(t) ==
    /\ pc[t] = "idle" /\ calls[t] = 0
    /\ Begin(t, "auto_assign_sound_effects", EnterListFiles(L0, "assign_listed", <<"fin">>))

\* after list_files_on_saber: the swing rule and the first effect
AssignListed(t) ==
    /\ pc[t] = "assign_listed"
    /\ Apply(t, AssignEffect([l[t] EXCEPT !.files = WithoutSwing(DictKeyList(l[t].file_list)), !.idx = 0],
                              stack[t]))
    /\ UNCHANGED <<wire, rx, dev, timeout, faults, ctl, calls>>

\* after the sleep that follows set_sounds_for_effect: the next effect, or the end
AssignNext(t) ==
    /\ pc[t] = "assign_next"
    /\ Apply(t, IF l[t].idx >= Len(effects) THEN Return(l[t], stack[t])
                ELSE AssignEffect(l[t], stack[t]))
    /\ UNCHANGED <<wire, rx, dev, timeout, faults, ctl, calls>>

InitAssign ==
    /\ Init0 /\ Created /\ late = <<>>
    /\ \E names \in NameLists(MaxStored) : Distinct(names) /\ stored = [known |-> TRUE, names |-> names]
    /\ pc = [t \in Tasks |-> IF t = 1 THEN "idle" ELSE "off"]

NextAssign ==
    \E t \in Tasks :
        \/ CallAutoAssign(t) \/ AssignListed(t) \/ AssignNext(t)
        \/ SendCommand(t) \/ ReadyRead(t)
        \/ ListCheck(t) \/ ListRead(t) \/ ListParse(t)
        \/ SoundsSetRead(t) \/ SaveRead(t)

SpecAssign == InitAssign /\ [][NextAssign]_vars

----------------------------------------------------------------------------
(* send_command and read_line called by the user of the controller         *)

\* a command of n bytes, the last one LF when ended is set
RawCommand(n, ended) == [i \in 1..n |-> IF ended /\ i = n THEN LF ELSE 120]

\* lengths around one and two chunks
RawCommands ==
    {RawCommand(n, ended) : n \in {0, 1, 2, CHUNK_SIZE - 1, CHUNK_SIZE, CHUNK_SIZE + 1,
                                    2 * CHUNK_SIZE, 2 * CHUNK_SIZE + 1}, ended \in BOOLEAN}

\* what the device sends some time after the call started
LateLines == { <<>>, <<79, 75, 10>>, <<79, 75>> }       \* nothing, "OK\n", "OK"

CallSendCommand(t) ==
    /\ CanCall(t)
    /\ \E cmd \in RawCommands :
           Begin(t, "send_command", Send([L0 EXCEPT !.input = cmd], cmd, "raw_sent", <<"fin">>))

\* send_command returns once its last write (and the sleep after a chunk) is over
RawSent(t) ==
    /\ pc[t] = "raw_sent"
    /\ Apply(t, Return(l[t], stack[t]))
    /\ UNCHANGED <<wire, rx, dev, timeout, faults, ctl, calls>>

CallReadLine(t) ==
    /\ CanCall(t)
    /\ Begin(t, "read_line", Goto(L0, "raw_read", <<"fin">>))

\* read_line: one readline_async, whose result is returned as it is
RawRead(t) ==
    /\ pc[t] = "raw_read"
    /\ \/ /\ ser # 0
          /\ rx' = ReadlineRest(rx)
          /\ Apply(t, Return([l[t] EXCEPT !.response = ReadlineTake(rx), !.reads = @ + 1], stack[t]))
          /\ UNCHANGED <<wire, dev, timeout, faults>>
       \/ /\ ser # 0
          /\ CanFault /\ Fault
          /\ Apply(t, Raise(l[t], "SerialException"))
       \/ /\ ser = 0
          /\ Apply(t, Raise(l[t], "AttributeError"))
          /\ UNCHANGED <<wire, rx, dev, timeout, faults>>
    /\ UNCHANGED <<ctl, calls>>

\* the device sends what it had not sent yet
Arrive ==
    /\ late # <<>>
    /\ rx' = rx \o late
    /\ late' = <<>>
    /\ UNCHANGED <<wire, dev, timeout, faults, gui, stored, sessv, calls, pc, stack, l, res>>

InitRaw ==
    /\ Init0 /\ Created /\ stored = AnyFiles
    /\ late \in LateLines
    /\ pc = [t \in Tasks |-> IF t = 1 THEN "idle" ELSE "off"]

NextRaw ==
    \/ \E t \in Tasks :
           \/ CallSendCommand(t) \/ SendCommand(t) \/ RawSent(t)
           \/ CallReadLine(t) \/ RawRead(t)
           \/ Collect(t)
    \/ Arrive

SpecRaw == InitRaw /\ [][NextRaw]_vars

\* Engine calls on a session on which an earlier exchange ended with a read
\* that timed out: what the device had not sent by then (late) arrives at
\* some later time.  Nothing in the engine empties the input buffer.
InitStale ==
    /\ Init0 /\ Created /\ stored = AnyFiles
    /\ late \in LateLines
    /\ pc = [t \in Tasks |-> IF t = 1 THEN "idle" ELSE "off"]

NextStale ==
    \/ \E t \in Tasks :
           \/ CallIsReady(t) \/ CallFreeSpace(t) \/ CallErase(t)
           \/ SendCommand(t) \/ ReadyRead(t) \/ FreeRead(t)
           \/ EraseCheck(t) \/ EraseFirstLine(t) \/ EraseByte(t) \/ EraseRest(t)
           \/ EraseSecondLine(t) \/ EraseThirdLine(t)
           \/ Collect(t)
    \/ Arrive

SpecStale == InitStale /\ [][NextStale]_vars

\* One erase_all_files of a controller with a progress sink, on a device that
\* goes on sending the tick `#` for as long as it erases and then the three
\* closing lines.
EraseByteLong(t) ==
    /\ pc[t] = "erase_byte"
    /\ EraseByteUpTo(t, MaxTickBytes)

\* the device sends one more tick, or the closing lines
DeviceErases ==
    /\ rx = <<>>
    /\ \E t \in Tasks : pc[t] = "erase_byte"
    /\ rx' \in {<<35>>, <<79, 75, 10, 79, 75, 10, 10>>}            \* "#", "OK\nOK\n\n"
    /\ UNCHANGED <<wire, dev, timeout, faults, ctl, calls, pc, stack, l, res>>

InitTicks == Init /\ gui

NextTicks ==
    \/ \E t \in Tasks :
           \/ CallErase(t) \/ SendCommand(t) \/ ReadyRead(t)
           \/ EraseCheck(t) \/ EraseFirstLine(t) \/ EraseByteLong(t) \/ EraseRest(t)
           \/ EraseSecondLine(t) \/ EraseThirdLine(t)
    \/ DeviceErases

SpecTicks == InitTicks /\ [][NextTicks]_vars

\* The parser of list_files_on_saber on its own: the listing text is any
\* sequence of these lines, each ended by LF, and then the ETX LF terminator.
ListingLines ==
    { <<65, 46, 82, 65, 87, 32, 53>>,              \* "A.RAW 5"
      <<65, 46, 82, 65, 87, 9, 55>>,               \* "A.RAW\t7"
      <<66, 46, 82, 65, 87, 32, 32, 49, 50>>,      \* "B.RAW  12"
      <<70, 105, 108, 101, 115, 58>>,              \* "Files:"
      <<67, 46, 82, 65, 87>>,                      \* "C.RAW", the size is missing
      <<57>> }                                     \* "9"

RECURSIVE ListingText(_)
ListingText(lines) ==
    IF lines = <<>> THEN EtxLf ELSE Head(lines) \o <<LF>> \o ListingText(Tail(lines))

\* list_files_on_saber whose awaited list_files_on_saber_as_bytes has
\* returned the text of `lines`
ListBytesReturned(t) ==
    /\ pc[t] = "idle" /\ calls[t] = 0
    /\ \E lines \in UNION {[1..n -> ListingLines] : n \in 1..MaxLines} :
           Begin(t, "list_files_on_saber",
                 Goto([L0 EXCEPT !.input = lines, !.file_list = ListingText(lines)], "list_parse", <<"fin">>))

NextParse == \E t \in Tasks : ListBytesReturned(t) \/ ListParse(t)

SpecParse == Init /\ [][NextParse]_vars

----------------------------------------------------------------------------
(* Reading the log of writes                                               *)

CmdEntry(t, cmd) == [t |-> t, k |-> "cmd", b |-> Terminated(cmd)]

IsHeader(e) == e.k = "cmd" /\ StartsWith(e.b, PrefixWR)

HeaderIdx == {i \in 1..Len(wire) : IsHeader(wire[i])}

\* the payload bytes written right after the write at index h
PayloadCount(h) ==
    Cardinality({j \in (h + 1)..Len(wire) : \A m \in (h + 1)..j : wire[m].k = "data"})

\* the bytes of those writes, in order
PayloadBytes(h) == [j \in 1..PayloadCount(h) |-> wire[h + j].b[1]]

\* the k-th write-open command of the log
NthHeader(k) == CHOOSE h \in HeaderIdx : Cardinality({g \in HeaderIdx : g <= h}) = k

LastHeader == CHOOSE h \in HeaderIdx : \A g \in HeaderIdx : g <= h

Uploading(t) == l[t].op = "write_files_to_saber"

Ended(t) == pc[t] = "idle" /\ res[t] # NoRes

Raised(t, exc) == Ended(t) /\ res[t].k = "raise" /\ res[t].exc = exc

\* the list of files to send is final
PlanDone(t) == Uploading(t) /\ (l[t].idx >= 1 \/ (Ended(t) /\ res[t].k = "return"))

\* the write-open commands sent so far are those of the first files of the list
SentInListOrder(t) ==
    /\ Cardinality(HeaderIdx) <= Len(l[t].files)
    /\ \A k \in 1..Cardinality(HeaderIdx) :
           wire[NthHeader(k)].b = WriteHeader(l[t].files[k], FileSize(l[t].files[k]))

BeepsAfterOthers(files) ==
    \A i, j \in 1..Len(files) : (i < j /\ IsBeep(files[i])) => IsBeep(files[j])

Occurrences(s, x) == Cardinality({i \in 1..Len(s) : s[i] = x})

SameElements(a, b) ==
    /\ Len(a) = Len(b)
    /\ \A i \in 1..Len(a) : Occurrences(a, a[i]) = Occurrences(b, a[i])

ListPermutations(s) ==
    {[i \in 1..Len(s) |-> s[f[i]]] : f \in {g \in [1..Len(s) -> 1..Len(s)] : \A i, j \in 1..Len(s) : g[i] = g[j] => i = j}}

\* the task is past the free-space test of the file it is at
PastFreeCheck(t) ==
    \/ pc[t] \in {"up_rdy_chk", "up_hdr_read", "up_stream", "up_term_read", "up_pause"}
    \/ pc[t] \in {"send", "rdy_read"} /\ stack[t] # <<>> /\ Head(stack[t]) = "up_rdy_chk"
    \/ pc[t] = "send" /\ l[t].after = "up_hdr_read"

\* the task has decided to send the write-open command of the file it is at
HeaderDecided(t) ==
    \/ pc[t] \in {"up_hdr_read", "up_stream", "up_term_read", "up_pause"}
    \/ pc[t] = "send" /\ l[t].after = "up_hdr_read"

\* the task waits for the device's answer to what it wrote
Awaiting(t) ==
    pc[t] \in {"rdy_read", "info_v_read", "info_s_read", "list_read", "free_read",
               "erase_read1", "erase_byte", "erase_rest", "erase_l2", "erase_l3",
               "up_hdr_read", "up_stream", "up_term_read"}

----------------------------------------------------------------------------
(* The claims                                                              *)

\* C1: saber_is_ready writes WR? and never raises; it returns True exactly
\* when the line it read is "OK, Write Ready\n", and False when the line is
\* anything else, when the read timed out and when the write or the read raised.
C1_IsReadyExact ==
    \A t \in Tasks :
        (l[t].op = "saber_is_ready" /\ Ended(t)) =>
            /\ res[t].k = "return"
            /\ l[t].ready <=> (l[t].rdy_response = ReadyLine)
            /\ wire \in {<<>>, <<CmdEntry(t, CmdWRQ)>>}
            /\ l[t].ready => wire # <<>>

C1_Witness ==
    \E t \in Tasks :
        /\ l[t].op = "saber_is_ready" /\ Ended(t)
        /\ l[t].ready
        /\ wire = <<CmdEntry(t, CmdWRQ)>>

\* C2: for every file write_files_to_saber sends, once the terminal response
\* is about to be read the payload bytes written after the WR= header are
\* as many as the header declares, and they are the bytes of the file.
C2_PayloadMatchesHeader ==
    \A t \in Tasks :
        Uploading(t) =>
            \A h \in HeaderIdx :
                (h # LastHeader \/ pc[t] \in {"up_term_read", "up_pause"} \/
                 (Ended(t) /\ res[t].exc # "SerialException")) =>
                    /\ PayloadCount(h) = HeaderSize(wire[h].b)
                    /\ \E p \in Paths \cup {DefaultBeepPath} :
                           /\ wire[h].b = WriteHeader(p, Len(FileContent(p)))
                           /\ PayloadBytes(h) = FileContent(p)

C2_Witness ==
    \E t \in Tasks :
        /\ Uploading(t) /\ pc[t] = "up_term_read"
        /\ HeaderIdx # {}
        /\ PayloadCount(LastHeader) = 2

\* C3: in write_files_to_saber FREE? is asked for each file before its WR=
\* header; NotEnoughFreeSpaceException is raised exactly when the free space
\* is below the size of the file, and then nothing was written after the
\* FREE? query: no header and no byte for this file or a later one, while
\* the headers and payloads of the earlier files were all sent.  A file as
\* large as the free space is sent.
C3_FreeSpacePreflight ==
    \A t \in Tasks :
        Uploading(t) =>
            /\ \A h \in HeaderIdx :
                   \E f \in 1..(h - 1) :
                       /\ wire[f] = CmdEntry(t, CmdFREE)
                       /\ \A g \in HeaderIdx : g < h => g < f
            /\ Raised(t, "NotEnoughFreeSpaceException") =>
                   /\ l[t].free < FileSize(l[t].files[l[t].idx])
                   /\ wire[Len(wire)] = CmdEntry(t, CmdFREE)
                   /\ Cardinality(HeaderIdx) = l[t].idx - 1
                   /\ SentInListOrder(t)
                   /\ \A h \in HeaderIdx : PayloadCount(h) = HeaderSize(wire[h].b)
            /\ PastFreeCheck(t) => l[t].free >= FileSize(l[t].files[l[t].idx])

C3_Witness ==
    \E t \in Tasks :
        /\ Raised(t, "NotEnoughFreeSpaceException")
        /\ l[t].idx = 2
        /\ Cardinality(HeaderIdx) = 1
        /\ PayloadCount(LastHeader) = 1

\* C4: in write_files_to_saber, when the line read after the last byte of
\* a file is "OK, Write Complete\n" the call goes on to the pause before the
\* next file; when it is any other line, an empty one included, the call
\* ends there with AnimaFileWriteException and writes nothing more.
C4_TerminalLine ==
    [][\A t \in Tasks :
           (Uploading(t) /\ pc[t] = "up_term_read" /\ pc'[t] # "up_term_read" /\ faults' = faults) =>
               IF l'[t].response = WriteCompleteLine
               THEN pc'[t] = "up_pause"
               ELSE /\ res'[t] = [k |-> "raise", exc |-> "AnimaFileWriteException"]
                    /\ wire' = wire]_vars

\* C5: in write_files_to_saber every WR= header directly follows a WR?
\* check that directly follows the FREE? query of the file, and that check
\* read "OK, Write Ready\n"; when the check of a file fails,
\* AnimaNotReadyException is raised and no header and no byte of this file
\* or a later one is written.
C5_ReadyBeforeHeader ==
    \A t \in Tasks :
        Uploading(t) =>
            /\ \A h \in HeaderIdx :
                   /\ h >= 3
                   /\ wire[h - 1] = CmdEntry(t, CmdWRQ)
                   /\ wire[h - 2] = CmdEntry(t, CmdFREE)
            /\ HeaderDecided(t) => l[t].rdy_response = ReadyLine
            /\ (Raised(t, "AnimaNotReadyException") /\ l[t].idx >= 1) =>
                   /\ l[t].rdy_response # ReadyLine
                   /\ Cardinality(HeaderIdx) = l[t].idx - 1
                   /\ wire[Len(wire)] \in {CmdEntry(t, CmdWRQ), CmdEntry(t, CmdFREE)}

C5_Witness ==
    \E t \in Tasks :
        /\ Raised(t, "AnimaNotReadyException")
        /\ l[t].idx = 2
        /\ Cardinality(HeaderIdx) = 1
        /\ wire[Len(wire)] = CmdEntry(t, CmdWRQ)

\* C6 as stated: whatever the device, the list write_files_to_saber sends
\* has every path containing BEEP.RAW after every path that does not.
C6_BeepLastAlways ==
    \A t \in Tasks : PlanDone(t) => BeepsAfterOthers(l[t].files)

\* C6, amended: when the device is an NXT, the list write_files_to_saber
\* sends has every path containing BEEP.RAW after every path that does
\* not; for any other device it is the input sorted by name, wherever that
\* puts the BEEP.RAW paths.  The WR= headers go out in the order of the list.
C6_BeepLastOnNXT ==
    \A t \in Tasks :
        PlanDone(t) =>
            /\ l[t].nxt => BeepsAfterOthers(l[t].files)
            /\ ~l[t].nxt => l[t].files = SortList(l[t].input)
            /\ SentInListOrder(t)

C6_Witness ==
    \E t \in Tasks :
        /\ PlanDone(t) /\ l[t].nxt
        /\ l[t].input = <<PathBeep, PathHum>>
        /\ l[t].files = <<PathHum, PathBeep>>
        /\ Cardinality(HeaderIdx) = 2

\* C7: write_files_to_saber appends the bundled BEEP.RAW, as the last file,
\* exactly when the device is an NXT, no input path contains BEEP.RAW,
\* add_beep is set and the listing of the device has no BEEP.RAW entry;
\* otherwise the list it sends holds the input paths and nothing else.
C7_DefaultBeep ==
    \A t \in Tasks :
        PlanDone(t) =>
            IF /\ l[t].nxt
               /\ \A i \in 1..Len(l[t].input) : ~Contains(l[t].input[i], BeepName)
               /\ l[t].add_beep
               /\ BeepName \notin DictKeys(FileDict(l[t].file_list))
            THEN /\ l[t].files = SortList(l[t].input) \o <<DefaultBeepPath>>
                 /\ SentInListOrder(t)
            ELSE /\ SameElements(l[t].files, l[t].input)
                 /\ SentInListOrder(t)

C7_Witness ==
    \E t \in Tasks :
        /\ PlanDone(t)
        /\ l[t].input = <<PathHum>>
        /\ l[t].files = <<PathHum, DefaultBeepPath>>
        /\ Cardinality(HeaderIdx) = 2

\* the list write_files_to_saber would send for the input q
PlanFor(q, nxt, add_beep, listing) ==
    LET sorted == SortList(q)
    IN  IF ~nxt THEN sorted
        ELSE IF \E i \in 1..Len(q) : Contains(q[i], BeepName)
        THEN MoveToEnd(sorted, BeepFiles(sorted))
        ELSE IF add_beep /\ BeepName \notin DictKeys(FileDict(listing))
        THEN Append(sorted, DefaultBeepPath)
        ELSE sorted

\* C8: the list write_files_to_saber sends does not depend on the order of
\* the input: against the same device answers, every permutation of the
\* input gives the list that was sent, and the WR= headers follow it.
C8_OrderIndependent ==
    \A t \in Tasks :
        PlanDone(t) =>
            /\ \A q \in ListPermutations(l[t].input) :
                   PlanFor(q, l[t].nxt, l[t].add_beep, l[t].file_list) = l[t].files
            /\ SentInListOrder(t)

C8_Witness ==
    \E t \in Tasks :
        /\ PlanDone(t)
        /\ l[t].input = <<PathHum, PathA>>
        /\ l[t].files = <<PathA, PathHum>>
        /\ Cardinality(HeaderIdx) = 2

\* C9: while a task waits for the answer to what it wrote (a command, or a
\* WR= header and the payload that follows it), no other task writes to
\* the serial port.
C9_OneCommandInFlight ==
    [][\A t \in Tasks :
           Awaiting(t) =>
               \A i \in (Len(wire) + 1)..Len(wire') : wire'[i].t = t]_vars

\* C10: get_saber_info, list_files_on_saber and erase_all_files begin with
\* the WR? check; when it does not read "OK, Write Ready\n" they raise
\* AnimaNotReadyException, having written nothing but WR? and leaving the
\* read timeout as they found it.
C10_ReadinessGuard ==
    \A t \in Tasks :
        l[t].op \in {"get_saber_info", "list_files_on_saber", "erase_all_files"} =>
            /\ wire # <<>> => wire[1] = CmdEntry(t, CmdWRQ)
            /\ l[t].rdy_response # ReadyLine =>
                   /\ Len(wire) <= 1
                   /\ timeout = l[t].timeout0
                   /\ Ended(t) => Raised(t, "AnimaNotReadyException")
                   /\ pc[t] \in {"send", "rdy_read", "info_chk", "list_chk", "erase_chk", "idle"}

C10_Witness ==
    \E t \in Tasks :
        /\ l[t].op = "erase_all_files"
        /\ Raised(t, "AnimaNotReadyException")
        /\ l[t].rdy_response = <<78, 79, 10>>
        /\ wire = <<CmdEntry(t, CmdWRQ)>>

\* C11: get_saber_info on a ready device writes V? and then S?, each after
\* the line before was read.  A V? line that is empty or does not start
\* with V= ends the call with InvalidSaberResponseException before S? is
\* written, an S? line that is empty or does not start with S= ends it with
\* the same exception, and on any other pair of lines the call goes on and
\* returns each line with its white space stripped and its first two
\* characters dropped.
C11_GetInfo ==
    [][\A t \in Tasks :
           (l[t].op = "get_saber_info" /\ faults' = faults) =>
               LET line == ReadlineTake(rx)
                   Invalid == [k |-> "raise", exc |-> "InvalidSaberResponseException"]
               IN  /\ (pc[t] = "info_v_read" /\ pc'[t] # "info_v_read") =>
                          /\ wire = <<CmdEntry(t, CmdWRQ), CmdEntry(t, CmdVQ)>>
                          /\ IF line = <<>> \/ ~StartsWith(line, PrefixV)
                             THEN res'[t] = Invalid /\ wire' = wire
                             ELSE /\ pc'[t] = "send" /\ l'[t].cmd = Terminated(CmdSQ)
                                  /\ l'[t].version = Drop(Strip(line), 2)
                   /\ (pc[t] = "info_s_read" /\ pc'[t] # "info_s_read") =>
                          /\ wire = <<CmdEntry(t, CmdWRQ), CmdEntry(t, CmdVQ), CmdEntry(t, CmdSQ)>>
                          /\ IF line = <<>> \/ ~StartsWith(line, PrefixS)
                             THEN res'[t] = Invalid /\ wire' = wire
                             ELSE /\ res'[t] = [k |-> "return", exc |-> "none"]
                                  /\ l'[t].serial = Drop(Strip(line), 2)]_vars

\* C12: on a ready device list_files_on_saber_as_bytes writes LIST? and
\* reads line after line, adding each to the listing in the order read; it
\* stops at the first line that ends in ETX LF, that line included, and
\* reads nothing from the serial port afterwards.
C12_ListUntilEtx ==
    [][\A t \in Tasks :
           l[t].op = "list_files_on_saber" =>
               /\ (pc[t] = "list_read" /\ faults' = faults) =>
                      LET line == ReadlineTake(rx)
                      IN  /\ wire = <<CmdEntry(t, CmdWRQ), CmdEntry(t, CmdLIST)>>
                          /\ wire' = wire
                          /\ rx' = ReadlineRest(rx)
                          /\ l'[t].file_list = l[t].file_list \o line
                          /\ pc'[t] = IF EndsWith(line, EtxLf) THEN "list_parse" ELSE "list_read"
               /\ (pc[t] = "list_parse" \/ Ended(t)) => rx' = rx]_vars

C12_Witness ==
    \E t \in Tasks :
        /\ l[t].op = "list_files_on_saber" /\ Ended(t) /\ res[t].k = "return"
        /\ l[t].file_list = <<65, 46, 82, 65, 87, 32, 53, 10, 66, 3, 10>>
        /\ rx = <<88, 10>>

\* the entry a listing line gives when it is, on its own, a file name
\* ending in .RAW, white space and a decimal size
LineEntry(line) ==
    LET m == MatchAt(line, 1)
    IN  IF m.e = Len(line) + 1 THEN {[name |-> m.name, size |-> m.size]} ELSE {}

\* C13: for a listing text of well-formed lines, other lines and the ETX LF
\* terminator, list_files_on_saber returns without an error a mapping with
\* one entry for each name of a well-formed line, holding the size of a
\* line of that name, and with no other entry.
C13_ListingParsed ==
    \A t \in Tasks :
        (l[t].op = "list_files_on_saber" /\ l[t].input # <<>> /\ Ended(t)) =>
            LET wellFormed == UNION {LineEntry(l[t].input[i]) : i \in 1..Len(l[t].input)}
            IN  /\ res[t].k = "return"
                /\ l[t].file_dict \subseteq wellFormed
                /\ DictKeys(l[t].file_dict) = DictKeys(wellFormed)
                /\ \A a, b \in l[t].file_dict : a.name = b.name => a = b

\* C15: get_free_space, get_used_space and get_total_space each write
\* their own command (FREE?, USED?, SIZE?) and nothing else, read one line
\* and end: they return the decimal number that stands from offset 5 of
\* the line to its end, white space around it aside, and raise when the
\* line is empty or has no decimal number there.
C15_SpaceQueries ==
    [][\A t \in Tasks :
           (/\ l[t].op \in {"get_free_space", "get_used_space", "get_total_space"}
            /\ pc[t] \in {"free_read", "used_read", "size_read"}
            /\ faults' = faults) =>
               LET line == ReadlineTake(rx)
                   num == Strip(Drop(line, 5))
                   own == IF l[t].op = "get_free_space" THEN CmdFREE
                          ELSE IF l[t].op = "get_used_space" THEN CmdUSED ELSE CmdSIZE
               IN  /\ wire = <<CmdEntry(t, own)>> /\ wire' = wire
                   /\ rx' = ReadlineRest(rx)
                   /\ IF IsDecimal(num)
                      THEN res'[t] = [k |-> "return", exc |-> "none"] /\ l'[t].free = DecValue(num)
                      ELSE res'[t].k = "raise"]_vars

C15_Witness ==
    \E t \in Tasks :
        /\ l[t].op = "get_total_space" /\ Ended(t) /\ res[t].k = "return"
        /\ wire = <<CmdEntry(t, CmdSIZE)>>
        /\ l[t].free = 34

C16_SetColorBytes ==
    \A t \in Tasks :
        (l[t].op = "set_color" /\ l[t].effect \in {"color", "clash", "swing"}) =>
            LET letter == CASE l[t].effect = "color" -> 67
                            [] l[t].effect = "clash" -> 70
                            [] l[t].effect = "swing" -> 87
                c == l[t].rgbw
                expected == <<letter>> \o DecStr(l[t].bank) \o <<61>> \o DecStr(c[1]) \o <<44>> \o DecStr(c[2])
                                \o <<44>> \o DecStr(c[3]) \o <<44>> \o DecStr(c[4]) \o <<LF>>
            IN  /\ wire # <<>> => wire[1] = [t |-> t, k |-> "cmd", b |-> expected]
                /\ (Ended(t) /\ res[t].exc # "SerialException") => wire # <<>>
                /\ (wire # <<>> /\ l[t].bank = 0 /\ l[t].effect = "color" /\ c = <<0, 9, 100, 255>>) =>
                       wire[1].b = <<67, 48, 61, 48, 44, 57, 44, 49, 48, 48, 44, 50, 53, 53, 10>>

C16_Witness ==
    \E t \in Tasks :
        /\ l[t].op = "set_color" /\ l[t].effect = "clash" /\ l[t].bank = 7
        /\ l[t].rgbw = <<10, 20, 30, 40>>
        /\ wire # <<>>
        /\ wire[1].b = <<70, 55, 61, 49, 48, 44, 50, 48, 44, 51, 48, 44, 52, 48, 10>>

\* the step in which a call reads the response to its own command
OwnRead(t) ==
    /\ faults' = faults
    /\ \/ l[t].op = "preview_color" /\ pc[t] = "preview_read"
       \/ l[t].op = "set_color" /\ pc[t] = "color_read"
       \/ l[t].op = "set_active_bank" /\ pc[t] = "bank_read"
       \/ l[t].op = "set_sounds_for_effect" /\ pc[t] = "sounds_set_read"
       \/ l[t].op = "get_sounds_for_effect" /\ pc[t] = "sounds_get_read"
       \/ l[t].op = "save_config" /\ pc[t] = "save_read"

SaveSends == Cardinality({i \in 1..Len(wire) : wire[i].b = <<83, 65, 86, 69, LF>>})

SetOps == {"set_color", "set_active_bank", "set_sounds_for_effect"}

\* set_color is given one of its three effects (for any other name it
\* writes nothing and returns)
Effective(t) == l[t].op = "set_color" => l[t].effect \in {"color", "clash", "swing"}

\* C18: a set_color, set_active_bank or set_sounds_for_effect that returns
\* has written SAVE exactly once, as the write that follows its own command;
\* the write of SAVE is started only in the step that reads and accepts the
\* response to that command; a rejected response ends the call with nothing
\* more written; preview_color never writes SAVE.
C18_SaveAfterAccepted ==
    /\ [](\A t \in Tasks :
             /\ l[t].op = "preview_color" => SaveSends = 0
             /\ l[t].op \in SetOps =>
                    /\ SaveSends <= 1
                    /\ SaveSends = 1 => (Len(wire) = 2 /\ wire[1].b # wire[2].b /\ wire[2].b = <<83, 65, 86, 69, LF>>)
                    /\ (res[t].k = "return" /\ Effective(t)) => SaveSends = 1
                    /\ (Raised(t, "InvalidSaberResponseException") /\ Len(wire) = 1) => SaveSends = 0)
    /\ [][\A t \in Tasks :
             /\ (OwnRead(t) /\ l[t].op \in SetOps) =>
                    LET line == ReadlineTake(rx)
                        accepted == IF l[t].op = "set_sounds_for_effect"
                                    THEN line = <<79, 75, 32>> \o wire[1].b
                                    ELSE Take(line, 2) = <<79, 75>>
                    IN  IF accepted
                        THEN /\ Len(wire) = 1 /\ pc'[t] = "send" /\ l'[t].cmd = <<83, 65, 86, 69, LF>>
                             /\ l'[t].after = "save_read" /\ res'[t] = NoRes
                        ELSE /\ wire' = wire /\ pc'[t] = "idle"
                             /\ res'[t] = [k |-> "raise", exc |-> "InvalidSaberResponseException"]
             /\ (l[t].op \in SetOps /\ pc'[t] = "send" /\ pc[t] # "send") =>
                    \/ pc[t] = "idle"
                    \/ OwnRead(t) /\ l'[t].after = "save_read"
             /\ (l[t].op \in SetOps /\ wire' # wire) =>
                    /\ pc[t] = "send"
                    /\ SaveSends' = SaveSends + 1 <=> l[t].after = "save_read"]_vars

C18_Witness ==
    \E t \in Tasks :
        /\ l[t].op = "set_sounds_for_effect" /\ res[t].k = "return"
        /\ Len(l[t].input) = 2
        /\ Len(wire) = 2 /\ wire[2].b = <<83, 65, 86, 69, LF>>

\* C19: the first write of set_sounds_for_effect(effect, files), for each of
\* the seven effects, is the header of the effect (sON, sOFF, sHUM, sSW,
\* sCL, sSMA, sSMB), the byte =, and the names of the list separated by
\* commas, in the order of the list, none dropped, repeated or moved; the
\* line feed that ends the command follows.
C19_SoundsCommand ==
    \A t \in Tasks :
        (l[t].op = "set_sounds_for_effect" /\ l[t].effect \notin {"boot", "ON"}) =>
            LET e == l[t].effect
                files == l[t].input
                header == CASE e = "on" -> <<115, 79, 78>>
                            [] e = "off" -> <<115, 79, 70, 70>>
                            [] e = "hum" -> <<115, 72, 85, 77>>
                            [] e = "swing" -> <<115, 83, 87>>
                            [] e = "clash" -> <<115, 67, 76>>
                            [] e = "smoothSwingA" -> <<115, 83, 77, 65>>
                            [] e = "smoothSwingB" -> <<115, 83, 77, 66>>
                b == wire[1].b
                body == SubSeq(b, Len(header) + 2, Len(b) - 1)
            IN  /\ (Ended(t) /\ res[t].exc # "SerialException") => wire # <<>>
                /\ wire # <<>> =>
                       /\ wire[1].t = t /\ wire[1].k = "cmd"
                       /\ Len(b) >= Len(header) + 2
                       /\ SubSeq(b, 1, Len(header)) = header
                       /\ b[Len(header) + 1] = 61
                       /\ b[Len(b)] = LF
                       /\ IF files = <<>> THEN body = <<>> ELSE Split(body, 44) = files
                       /\ (e = "hum" /\ files = <<PathHum, PathA>>) =>
                              b = <<115, 72, 85, 77, 61, 72, 85, 77, 46, 82, 65, 87, 44, 65, 46, 82, 65, 87, 10>>

C19_Witness ==
    \E t \in Tasks :
        /\ l[t].op = "set_sounds_for_effect" /\ l[t].effect = "smoothSwingB"
        /\ l[t].input = <<PathHum, PathA>>
        /\ res[t].k = "return"
        /\ wire[1].b = <<115, 83, 77, 66, 61, 72, 85, 77, 46, 82, 65, 87, 44, 65, 46, 82, 65, 87, 10>>

\* C20: set_sounds_for_effect and get_sounds_for_effect called with a name
\* that is none of the seven effects raise
\* InvalidSoundEffectSpecifiedException with nothing written to the port:
\* no effect command, no SAVE, nothing read, the device as it was.
C20_InvalidEffect ==
    \A t \in Tasks :
        (/\ l[t].op \in {"set_sounds_for_effect", "get_sounds_for_effect"}
         /\ l[t].effect \notin {"on", "off", "hum", "swing", "clash", "smoothSwingA", "smoothSwingB"}) =>
            /\ Raised(t, "InvalidSoundEffectSpecifiedException")
            /\ wire = <<>> /\ SaveSends = 0
            /\ rx = <<>> /\ dev = 0 /\ faults = 0

C20_Witness ==
    \E t \in Tasks :
        /\ l[t].op = "set_sounds_for_effect" /\ l[t].effect = "ON"
        /\ l[t].input = <<PathA, PathHum>>
        /\ Raised(t, "InvalidSoundEffectSpecifiedException")
        /\ wire = <<>>

C23_TimeoutRestored ==
    (\A t \in Tasks : ~(l[t].op = "erase_all_files" /\ pc[t] # "idle")) => timeout = DEFAULT_TIMEOUT

\* C29: read_line returns an empty line only after it has read five times.
C29_ReadRetried ==
    \A t \in Tasks :
        (l[t].op = "read_line" /\ res[t].k = "return" /\ l[t].response = <<>>) => l[t].reads = 5

\* C30: the writes of send_command(cmd), one after the other, are the
\* command ended by LF (one is added unless cmd ends in LF) cut every 128
\* bytes: no write is empty, every write but the last has 128 bytes, and a
\* command that with its LF has at most 128 bytes is written in one write.
C30_SendChunks ==
    \A t \in Tasks :
        l[t].op = "send_command" =>
            LET cmd == l[t].input
                term == IF cmd # <<>> /\ cmd[Len(cmd)] = 10 THEN cmd ELSE cmd \o <<10>>
                n == Len(wire)
                joined == [i \in 1..Len(term) |-> wire[((i - 1) \div 128) + 1].b[((i - 1) % 128) + 1]]
                done == res[t].k = "return"
            IN  /\ \A i \in 1..n :
                       /\ wire[i].t = t
                       /\ Len(wire[i].b) \in 1..128
                       /\ i < n => Len(wire[i].b) = 128
                       /\ \A j \in 1..Len(wire[i].b) : wire[i].b[j] = term[128 * (i - 1) + j]
                /\ (n > 0 /\ Len(wire[n].b) < 128) => 128 * (n - 1) + Len(wire[n].b) = Len(term)
                /\ done =>
                       /\ n = (Len(term) + 127) \div 128
                       /\ 128 * (n - 1) + Len(wire[n].b) = Len(term)
                       /\ joined = term
                       /\ Len(term) <= 128 => n = 1

C30_Witness ==
    \E t \in Tasks :
        /\ l[t].op = "send_command" /\ res[t].k = "return"
        /\ Len(l[t].input) = 256 /\ l[t].input[256] # 10
        /\ Len(wire) = 3 /\ wire[3].b = <<10>>

\* the commands on the wire that set the sounds of an effect (they begin with s)
EffectCmds == SelectSeq(wire, LAMBDA e : e.b # <<>> /\ e.b[1] = 115)

\* C21: auto_assign_sound_effects writes one command for each of the seven
\* effects, in the order on, off, hum, swing, clash, smoothSwingA,
\* smoothSwingB; the command of an effect names exactly the files of the
\* listing that begin with the prefix of the effect, in the order of the
\* listing; and when a file of the listing is a smooth swing file (its name
\* holds SMOOTHSWING) the command for swing names no file.  A command that
\* the device rejects ends the call, so the commands written are then the
\* first ones of the seven.
C21_AutoAssign ==
    \A t \in Tasks :
        l[t].op = "auto_assign_sound_effects" =>
            LET files == stored.names
                kinds == << [h |-> <<115, 79, 78>>, p |-> <<80, 79, 87, 69, 82, 79, 78>>],
                            [h |-> <<115, 79, 70, 70>>, p |-> <<80, 79, 87, 69, 82, 79, 70, 70>>],
                            [h |-> <<115, 72, 85, 77>>, p |-> <<72, 85, 77>>],
                            [h |-> <<115, 83, 87>>, p |-> <<83, 87, 73, 78, 71>>],
                            [h |-> <<115, 67, 76>>, p |-> <<67, 76, 65, 83, 72>>],
                            [h |-> <<115, 83, 77, 65>>, p |-> <<83, 77, 79, 79, 84, 72, 83, 87, 73, 78, 71, 72>>],
                            [h |-> <<115, 83, 77, 66>>, p |-> <<83, 77, 79, 79, 84, 72, 83, 87, 73, 78, 71, 76>>] >>
                smooth == \E i \in 1..Len(files) :
                              \E k \in 0..(Len(files[i]) - 11) :
                                  SubSeq(files[i], k + 1, k + 11) = <<83, 77, 79, 79, 84, 72, 83, 87, 73, 78, 71>>
                Begins(f, p) == Len(f) >= Len(p) /\ SubSeq(f, 1, Len(p)) = p
                expected(i) == IF i = 4 /\ smooth THEN <<>>
                               ELSE SelectSeq(files, LAMBDA f : Begins(f, kinds[i].p))
                cmds == EffectCmds
            IN  /\ Len(cmds) <= 7
                /\ res[t].k = "return" => Len(cmds) = 7
                /\ \A i \in 1..Len(cmds) :
                       LET b == cmds[i].b
                           h == kinds[i].h
                           body == SubSeq(b, Len(h) + 2, Len(b) - 1)
                       IN  /\ Len(b) >= Len(h) + 2
                           /\ SubSeq(b, 1, Len(h) + 1) = h \o <<61>>
                           /\ b[Len(b)] = LF
                           /\ IF expected(i) = <<>> THEN body = <<>> ELSE Split(body, 44) = expected(i)

C21_Witness ==
    \E t \in Tasks :
        /\ l[t].op = "auto_assign_sound_effects" /\ res[t].k = "return"
        /\ stored.names = << <<83, 87, 73, 78, 71, 46, 82, 65, 87>>, <<83, 77, 79, 79, 84, 72, 83, 87, 73, 78, 71, 72, 46, 82, 65, 87>> >>
        /\ Len(EffectCmds) = 7
        /\ EffectCmds[4].b = <<115, 83, 87, 61, 10>>
        /\ EffectCmds[6].b = <<115, 83, 77, 65, 61, 83, 77, 79, 79, 84, 72, 83, 87, 73, 78, 71, 72, 46, 82, 65, 87, 10>>

\* the two pairs of vendor and product id the code names: EVO and NXT
KnownPair(p) == (p.vid = VID_EVO /\ p.pid = PID_EVO) \/ (p.vid = VID_NXT /\ p.pid = PID_NXT)

Names(list) == {list[i] : i \in 1..Len(list)}

\* C24: what get_anima_ports returns is exactly the ports of the system that
\* report one of the two known pairs 16C0:0483 and 0483:5740, and a port is
\* among them if and only if port_is_anima accepts it.
C24_CandidatePorts ==
    \A t \in Tasks :
        (Ended(t) /\ l[t].op = "get_anima_ports" /\ res[t].k = "return") =>
            /\ Names(l[t].value) = {sysports[i].device : i \in {j \in 1..Len(sysports) : KnownPair(sysports[j])}}
            /\ \A i \in 1..Len(sysports) :
                   sysports[i].device \in Names(l[t].value) <=> port_is_anima(sysports, sysports[i].device)

\* a step of initialize on the controller
InitializeStep == inits' = inits + 1

\* initialize has returned, the transport self._ser open on the port `name`
OpenedOn(name) ==
    /\ \E t \in Tasks : pc'[t] = "idle" /\ l'[t].op = "initialize" /\ res'[t].k = "return"
    /\ phase' = "Ready"
    /\ port' = name
    /\ ser' = Len(trans')
    /\ ser' # ser
    /\ trans'[ser'] = [port |-> name, open |-> TRUE]

\* initialize has raised exc and opened nothing
RaisedUnopened(exc) ==
    /\ \E t \in Tasks : pc'[t] = "idle" /\ l'[t].op = "initialize" /\ res'[t] = [k |-> "raise", exc |-> exc]
    /\ phase' = "Failed"
    /\ ser' = ser
    /\ trans' = trans

\* the first port that lp.grep finds for the name reports a known pair
Verified(name) ==
    LET found == GrepName(sysports, name)
    IN  found # <<>> /\ KnownPair(found[1])

\* C25 as stated: with an explicit port, initialize opens the transport on
\* that port and succeeds for every port that can be opened, whatever the
\* port reports about the device.
C25_ExplicitAccepted ==
    [][(InitializeStep /\ port # <<>> /\ Exists(sysports, port) /\ faults' = faults)
           => OpenedOn(port)]_vars

\* C25, amended: with an explicit port, initialize first verifies the port:
\* when the port found for the name reports a known pair, the transport is
\* opened on the port given and the call succeeds whenever that port can be
\* opened; otherwise NoAnimaSaberException is raised and nothing is opened.
C25_ExplicitVerified ==
    [][(InitializeStep /\ port # <<>>) =>
           IF ~Verified(port) THEN RaisedUnopened("NoAnimaSaberException")
           ELSE IF Exists(sysports, port) /\ faults' = faults THEN OpenedOn(port)
           ELSE port' = port /\ RaisedUnopened("SerialException")]_vars

\* an explicit port that exists and reports another device was refused
C25_Witness ==
    \E t \in Tasks :
        /\ Ended(t) /\ l[t].op = "initialize" /\ l[t].input = COM1
        /\ res[t] = [k |-> "raise", exc |-> "NoAnimaSaberException"]
        /\ sysports = <<[device |-> COM1, vid |-> OtherUsb.vid, pid |-> OtherUsb.pid]>>
        /\ inits = 1 /\ trans = <<>> /\ phase = "Failed"

\* C26: without an explicit port, initialize binds the controller to the
\* first port get_anima_ports returns and opens the transport on it; when
\* get_anima_ports returns none it raises NoAnimaSaberException, the session
\* is Failed and no transport was opened.
C26_FirstCandidate ==
    [][(InitializeStep /\ port = <<>>) =>
           LET found == get_anima_ports(sysports)
           IN  IF found = <<>>
               THEN RaisedUnopened("NoAnimaSaberException") /\ trans' = <<>> /\ ser' = 0 /\ port' = <<>>
               ELSE IF faults' = faults THEN OpenedOn(found[1])
               ELSE port' = found[1] /\ RaisedUnopened("SerialException")]_vars

\* of two sabers attached, the one listed first was taken
C26_Witness ==
    \E t \in Tasks :
        /\ Ended(t) /\ l[t].op = "initialize" /\ l[t].input = <<>> /\ res[t].k = "return"
        /\ Len(sysports) = 2 /\ KnownPair(sysports[1]) /\ KnownPair(sysports[2])
        /\ sysports[1].device = COM10
        /\ port = COM10 /\ phase = "Ready"
        /\ trans = <<[port |-> COM10, open |-> TRUE]>>

\* the transports of the controller that are open
OpenTransports == {i \in 1..Len(trans) : trans[i].open}

C28_Lifecycle ==
    [][/\ phase = "Ready" => phase' \in {"Ready", "Closed"}
       /\ phase = "Failed" => phase' \in {"Failed", "Closed"}
       /\ phase = "Closed" => phase' = "Closed"
       /\ Len(wire') > Len(wire) => phase = "Ready"
       /\ (phase # "Closed" /\ phase' = "Closed") =>
              IF ser = 0 THEN trans' = trans ELSE ~trans'[ser].open]_vars

\* task t is in the engine call op
Running(t, op) == l[t].op = op /\ pc[t] \notin {"idle", "off"}

\* C31: list_files_on_saber ends, by returning or raising, also when the
\* device never sends a line that ends in ETX LF and the line reads time out.
C31_ListTerminates == \A t \in Tasks : Running(t, "list_files_on_saber") ~> Ended(t)

\* C32: erase_all_files ends, by returning or raising, also when a read of
\* one byte times out while the ticks are read: the empty read is no tick.
C32_EraseTerminates == \A t \in Tasks : Running(t, "erase_all_files") ~> Ended(t)

\* C33: read_config_ini ends, by returning or raising, also when the device
\* stops sending before `}3` was read and the reads of one byte time out.
C33_ConfigTerminates == \A t \in Tasks : Running(t, "read_config_ini") ~> Ended(t)

\* the version the device reported begins with the tag of the NXT family
FamilyB(t) == Len(l[t].version) >= 4 /\ SubSeq(l[t].version, 1, 4) = <<78, 88, 84, 95>>

\* task t is in the loop that streams the bytes of a file
Streaming(t) == l[t].op = "write_files_to_saber" /\ pc[t] = "up_stream"

\* C35: while write_files_to_saber streams a file, the delay after each byte
\* is above zero if and only if the device is an NXT and the host system is
\* not Windows; for an EVO on any host and for any device on Windows it is zero.
C35_Pacing ==
    \A t \in Tasks :
        Streaming(t) =>
            /\ l[t].sleep # 0 <=> (FamilyB(t) /\ l[t].system # "Windows")
            /\ ~FamilyB(t) => l[t].sleep = 0
            /\ l[t].system = "Windows" => l[t].sleep = 0

\* a byte of a file was sent to an NXT from a host that is not Windows, with the delay
C35_Witness ==
    \E t \in Tasks :
        /\ Streaming(t) /\ FamilyB(t) /\ l[t].system = "Linux"
        /\ l[t].sleep > 0
        /\ l[t].bytes_sent > 0

\* s holds no line feed but, at most, as its last byte
OneLine(s) == \A i \in 1..(Len(s) - 1) : s[i] # LF

\* C37: in write_files_to_saber, after the write-open command one response
\* line is read, no more, and whatever it is (an acknowledgement, another
\* text, nothing) the bytes of the file are streamed next: all of them are
\* written before the terminal line is read.
C37_HeaderLineIgnored ==
    /\ [][\A t \in Tasks :
              (Uploading(t) /\ pc[t] = "up_hdr_read" /\ faults' = faults /\ pc'[t] # pc[t]) =>
                  /\ pc'[t] = "up_stream"
                  /\ rx = l'[t].response \o rx'
                  /\ OneLine(l'[t].response)
                  /\ (rx' # <<>> => l'[t].response # <<>> /\ l'[t].response[Len(l'[t].response)] = LF)
                  /\ wire' = wire
                  /\ l'[t] = [l[t] EXCEPT !.response = l'[t].response]]_vars
    /\ [](\A t \in Tasks :
              (Uploading(t) /\ pc[t] = "up_term_read") =>
                  PayloadBytes(LastHeader) = FileContent(l[t].files[l[t].idx]))

\* after the line `ERR` was read in answer to the write-open command, the
\* whole of a file of two bytes was written
C37_Witness ==
    \E t \in Tasks :
        /\ Uploading(t) /\ pc[t] = "up_term_read"
        /\ l[t].response = <<69, 82, 82, 10>>
        /\ l[t].files[l[t].idx] = PathHum
        /\ PayloadBytes(LastHeader) = <<7, 10>>

\* C38: set_color called with an effect that is none of "color", "clash"
\* and "swing" returns without an exception, with nothing written to the
\* port (no color command, no SAVE) and nothing read.
C38_InvalidChannel ==
    \A t \in Tasks :
        (l[t].op = "set_color" /\ l[t].effect \notin {"color", "clash", "swing"}) =>
            /\ Ended(t) /\ res[t] = [k |-> "return", exc |-> "none"]
            /\ wire = <<>> /\ SaveSends = 0
            /\ rx = <<>> /\ dev = 0 /\ faults = 0

C38_Witness ==
    \E t \in Tasks :
        /\ l[t].op = "set_color" /\ l[t].effect = "glow" /\ l[t].bank = 3
        /\ l[t].rgbw = <<10, 20, 30, 40>>
        /\ Ended(t) /\ res[t].k = "return"
        /\ wire = <<>>

\* C39: after set_sounds_for_effect(effect, files) returned, on a device that
\* keeps the list and answers s<EFFECT>? with the header, "=" and the list
\* joined by commas, get_sounds_for_effect(effect) returns files: the same
\* names in the same order, the empty list for the empty list.
C39_RoundTrip ==
    \A t \in Tasks :
        (l[t].op = "get_sounds_for_effect" /\ calls[t] = 2 /\ Ended(t) /\ res[t].k = "return") =>
            l[t].value = l[t].input

\* a command of an engine call is written in this step
CommandWritten == Len(wire') > Len(wire) /\ wire'[Len(wire')].k = "cmd"

\* C36: the line an engine call reads in answer to a command is the device's
\* reply to that command, never one left over from an earlier command: the
\* call reads the first line of the input buffer, so when it writes its
\* command the buffer holds nothing that was sent before, also after a call
\* that ended on a read that timed out or on an error.
C36_NoStaleReply == [][CommandWritten => rx = <<>>]_vars

\* C34: no value erase_all_files hands to the progress sink is above 100,
\* the value for 140 ticks, however many ticks the device sends, and within
\* one erase no value is below the one handed over before it.
C34_ProgressCapped ==
    \A t \in Tasks :
        l[t].op = "erase_all_files" =>
            \A k \in 1..Len(l[t].emitted) :
                /\ l[t].emitted[k] <= 100
                /\ k > 1 => l[t].emitted[k - 1] <= l[t].emitted[k]

====
